---- MODULE Spec2Model ----
(***************************************************************************)
(* Model of the Longbow-backed memory store (src/server/memory_store.py):  *)
(* the Arrow Flight client LongbowClient, the facade MemoryStore, and the  *)
(* remote store they talk to.                                              *)
(*                                                                         *)
(* Strings whose characters the code inspects (record ids, raw ids of      *)
(* query rows, ISO timestamps) are sequences of one-character strings;     *)
(* strings the code only passes around (content, client_id) are opaque.    *)
(* An optional value is <<>> (None) or <<v>>.                              *)
(***************************************************************************)
EXTENDS Integers, Sequences, FiniteSets, TLC

\* ------------------------------------------------------------------ bounds
\* most records the namespace holds while the store runs
MaxRecs == 2
\* most add_memory calls (uuid4 / utcnow draws) of one run
MaxClock == 2
\* most records of a namespace handed to a single list_memories or search
MaxNs == 3
\* largest limit and offset passed to a single list_memories
MaxLimit == 3
\* largest max_retries passed to a direct connect call
MaxRetriesArg == 4
\* most failed probes before a starting server answers the running store
MaxDownProbes == 1
\* most rows of a query response
MaxRows == 2
\* most records of the batch of a direct insert
MaxBatch == 3
\* most records of a namespace whose records have incomplete metadata
MaxMetaRecs == 2
\* largest top_k passed to search by a caller of the running store
MaxTopK == 1

\* ------------------------------------------------------- program constants
DefaultMaxRetries == 30
DefaultLimit == 50
EMBEDDING_DIM == 384
\* TraverseRequest.max_hops: Field(default=2, ge=1, le=10)
HopCeiling == 10

\* ----------------------------------------------------------------- strings
\* The characters used, in code point order.
Alphabet == <<"-", "0", "1", "2", "3", "4", "5", "6", "7", "8", "9", "u", "z">>

CodePoint ==
    ("-" :> 1) @@ ("0" :> 2) @@ ("1" :> 3) @@ ("2" :> 4) @@ ("3" :> 5) @@ ("4" :> 6)
    @@ ("5" :> 7) @@ ("6" :> 8) @@ ("7" :> 9) @@ ("8" :> 10) @@ ("9" :> 11)
    @@ ("u" :> 12) @@ ("z" :> 13)

Ord(c) == CodePoint[c]

DigitChars == {"0", "1", "2", "3", "4", "5", "6", "7", "8", "9"}

DigitVal(c) == Ord(c) - 2

DigitChar(n) == Alphabet[n + 2]

\* str < str of Python: lexicographic by code point, a proper prefix is smaller
RECURSIVE StrLess(_, _)
StrLess(a, b) ==
    IF Len(b) = 0 THEN FALSE
    ELSE IF Len(a) = 0 THEN TRUE
    ELSE IF Ord(Head(a)) < Ord(Head(b)) THEN TRUE
    ELSE IF Ord(Head(a)) > Ord(Head(b)) THEN FALSE
    ELSE StrLess(Tail(a), Tail(b))

\* str.isdigit(): non-empty and every character a digit
IsDigit(s) == Len(s) > 0 /\ \A i \in 1..Len(s) : s[i] \in DigitChars

\* str.lstrip('-')
RECURSIVE LStripDash(_)
LStripDash(s) ==
    IF Len(s) > 0 /\ Head(s) = "-" THEN LStripDash(Tail(s)) ELSE s

RECURSIVE DigitsValue(_, _)
DigitsValue(s, acc) ==
    IF Len(s) = 0 THEN acc ELSE DigitsValue(Tail(s), 10 * acc + DigitVal(Head(s)))

\* int(s): an optional single sign, then digits; anything else is a ValueError
IntParse(s) ==
    IF IsDigit(s) THEN [ok |-> TRUE, val |-> DigitsValue(s, 0)]
    ELSE IF Len(s) > 1 /\ Head(s) = "-" /\ IsDigit(Tail(s))
         THEN [ok |-> TRUE, val |-> 0 - DigitsValue(Tail(s), 0)]
         ELSE [ok |-> FALSE, val |-> 0]

\* str(i) of a row number
RECURSIVE NatStr(_)
NatStr(n) == IF n < 10 THEN <<DigitChar(n)>> ELSE NatStr(n \div 10) \o <<DigitChar(n % 10)>>

\* datetime.isoformat(): fixed-width, zero-padded fields (two digits here)
IsoFormat(t) == <<DigitChar(t \div 10), DigitChar(t % 10)>>

\* datetime.fromisoformat(): the fixed-width form or a ValueError
FromIso(s) ==
    IF Len(s) = 2 /\ IsDigit(s) THEN [ok |-> TRUE, val |-> DigitsValue(s, 0)]
    ELSE [ok |-> FALSE, val |-> 0]

\* str(uuid.uuid4()): the n-th identifier drawn; never a numeric string
Uuid(n) == <<"u", DigitChar(n)>>

None == <<>>
Some(v) == <<v>>

\* ------------------------------------------------------------ dictionaries
EmptyDict == [k \in {} |-> 0]

\* {**base, **over}
Merge(base, over) ==
    [k \in DOMAIN base \cup DOMAIN over |-> IF k \in DOMAIN over THEN over[k] ELSE base[k]]

ReservedKeys == {"content", "client_id", "created_at"}

\* json.dumps of a dict: the text, as its key/value pairs
JsonDumps(d) == {<<k, d[k]>> : k \in DOMAIN d}

\* json.loads of such a text
JsonLoads(text) ==
    [k \in {p[1] : p \in text} |-> (CHOOSE p \in text : p[1] = k)[2]]

\* model.encode(content).tolist(): a vector of EMBEDDING_DIM floats
Embed(content) == [dim |-> EMBEDDING_DIM, of |-> content]


\* ------------------------------------------------------------------- state
VARIABLES
    _store,       \* the module global _store is not None
    up,           \* remote: the Longbow servers answer requests
    nsExists,     \* remote: the namespace mcp_memories exists
    recs,         \* remote: the namespace's rows, in download order
    metaClient,   \* LongbowClient._meta_client is not None
    dataClient,   \* LongbowClient._data_client is not None
    model,        \* MemoryStore._model is not None
    client,       \* MemoryStore._client is not None
    initialized,  \* MemoryStore._initialized
    clock,        \* uuid4 / utcnow draws made so far
    last,         \* the last call: operation, arguments, outcome, remote requests,
                  \* the record count and MemoryStore._client it started from, and
                  \* whether the call before it was a search whose query failed
    emptied,      \* history: the count the last delete_all returned, while nothing was uploaded since
    added,        \* history: the Memory of the last add_memory, while nothing else wrote
                  \* (at the request layer: the edge of the last add_edge request)
    ensured,      \* history: this store has issued the create-namespace action
    pc,           \* concurrent callers: each caller's position and local variables
    heap,         \* concurrent callers: the LongbowClient objects built, and the
                  \* one MemoryStore._client refers to
    websocket_clients  \* api.websocket_clients: the connected WebSocket clients

vars == <<_store, up, nsExists, recs, metaClient, dataClient, model, client, initialized,
          clock, last, emptied, added, ensured, pc, heap,
          websocket_clients>>

\* The remote store and the client object, threaded through one call.
World == [up |-> up, nsExists |-> nsExists, recs |-> recs,
          meta |-> metaClient, data |-> dataClient, trace |-> <<>>]

Store == [model |-> model, client |-> client, initialized |-> initialized]

Emit(w, ev) == [w EXCEPT !.trace = Append(@, ev)]

\* The requests and waits of connect().
ConnectEvents == {"probe_ok", "probe_fail", "sleep", "open_data", "open_data_fail"}

\* The outcomes of the create-namespace action.
CreateEvents == {"create_ok", "create_exists", "create_fail"}

\* Two callers may share the store.
Callers == {1, 2}

\* No caller is inside a call, no client object is shared, no WebSocket is
\* connected.
NoCallers ==
    /\ websocket_clients = {}
    /\ pc = [t \in Callers |-> [at |-> "idle"]]
    /\ heap = [cur |-> 0, of |-> [t \in Callers |-> [meta |-> FALSE, data |-> FALSE]]]

\* ------------------------------------------------------------ LongbowClient
\* A method's outcome is [w, exc, ret]: the world it leaves, the exception it
\* raises ("none" when it returns) and the value it returns.

\* A probe loop that also waits after its last failed attempt.
RECURSIVE ConnectLoopWaitsLast(_, _, _, _)
ConnectLoopWaitsLast(w, attempt, max_retries, downFor) ==
    IF attempt >= max_retries
    THEN [w |-> w, exc |-> IF attempt > 0 THEN "ConnectionError" ELSE "none"]
    ELSE LET w1 == [w EXCEPT !.meta = TRUE] IN
         IF w1.meta /\ attempt >= downFor
         THEN [w |-> Emit([w1 EXCEPT !.up = TRUE], "probe_ok"), exc |-> "none"]
         ELSE ConnectLoopWaitsLast(Emit(Emit(w1, "probe_fail"), "sleep"),
                                   attempt + 1, max_retries, downFor)

\* for attempt in range(max_retries): the server answers from attempt downFor on
RECURSIVE ConnectLoop(_, _, _, _)
ConnectLoop(w, attempt, max_retries, downFor) ==
    IF attempt >= max_retries THEN [w |-> w, exc |-> "none"]
    ELSE LET w1 == [w EXCEPT !.meta = TRUE] IN
         IF w1.meta /\ attempt >= downFor
         THEN [w |-> Emit([w1 EXCEPT !.up = TRUE], "probe_ok"), exc |-> "none"]
         ELSE IF attempt < max_retries - 1
              THEN ConnectLoop(Emit(Emit(w1, "probe_fail"), "sleep"),
                               attempt + 1, max_retries, downFor)
              ELSE [w |-> Emit(w1, "probe_fail"), exc |-> "ConnectionError"]

\* self._data_client = flight.connect(self.data_uri), after the probe loop r
OpenData(r, env) ==
    IF r.exc # "none" THEN r
    ELSE IF env.dataOk
         THEN [w |-> Emit([r.w EXCEPT !.data = TRUE], "open_data"), exc |-> "none"]
         ELSE [w |-> Emit(r.w, "open_data_fail"), exc |-> "FlightError"]

\* LongbowClient.connect(max_retries, delay)
Connect(w, max_retries, env) ==
    OpenData(ConnectLoop(w, 0, max_retries, IF w.up THEN 0 ELSE env.downFor), env)

\* An _ensure_connected that never reconnects.
EnsureConnectedSkips(w, env) == [w |-> w, exc |-> "none"]

\* LongbowClient._ensure_connected
EnsureConnected(w, env) ==
    IF ~w.meta \/ ~w.data THEN Connect(w, DefaultMaxRetries, env)
    ELSE [w |-> w, exc |-> "none"]

\* A CreateNamespace action that replaces a namespace that exists.
CreateActionOverwrites(e, env) ==
    IF e.exc # "none" THEN [w |-> e.w, exc |-> e.exc, ret |-> FALSE]
    ELSE [w |-> Emit([e.w EXCEPT !.nsExists = TRUE, !.recs = <<>>], "create_ok"),
          exc |-> "none", ret |-> TRUE]

\* The CreateNamespace action, after _ensure_connected gave e: every failure
\* of the action is swallowed.
CreateAction(e, env) ==
    IF e.exc # "none" THEN [w |-> e.w, exc |-> e.exc, ret |-> FALSE]
    ELSE IF ~e.w.up \/ ~env.createOk
         THEN [w |-> Emit(e.w, "create_fail"), exc |-> "none", ret |-> FALSE]
    ELSE IF e.w.nsExists
         THEN [w |-> Emit(e.w, "create_exists"), exc |-> "none", ret |-> FALSE]
    ELSE [w |-> Emit([e.w EXCEPT !.nsExists = TRUE, !.recs = <<>>], "create_ok"),
          exc |-> "none", ret |-> TRUE]

\* LongbowClient.create_namespace(name)
CreateNamespace(w, env) == CreateAction(EnsureConnected(w, env), env)

\* A DeleteNamespace action that reports success and leaves the rows in place.
DeleteActionKeepsRows(e, env) ==
    IF e.exc # "none" THEN [w |-> e.w, exc |-> e.exc, ret |-> FALSE]
    ELSE [w |-> Emit(e.w, "delete_ok"), exc |-> "none", ret |-> TRUE]

\* The DeleteNamespace action, after _ensure_connected gave e: every failure
\* of the action is swallowed.
DeleteAction(e, env) ==
    IF e.exc # "none" THEN [w |-> e.w, exc |-> e.exc, ret |-> FALSE]
    ELSE IF ~e.w.up \/ ~env.deleteOk \/ ~e.w.nsExists
         THEN [w |-> Emit(e.w, "delete_fail"), exc |-> "none", ret |-> FALSE]
    ELSE [w |-> Emit([e.w EXCEPT !.nsExists = FALSE, !.recs = <<>>], "delete_ok"),
          exc |-> "none", ret |-> TRUE]

\* LongbowClient.delete_namespace(name)
DeleteNamespace(w, env) == DeleteAction(EnsureConnected(w, env), env)

\* One row of the uploaded table: the metadata cell is json.dumps(metadata).
WireRow(r) ==
    [id |-> r.id, vector |-> r.vector,
     metadata |-> [kind |-> "json", text |-> JsonDumps(r.metadata)],
     timestamp |-> r.timestamp]

\* np.array(vectors, dtype=np.float32) raises ValueError when the vectors of
\* the batch differ in length.
Ragged(rs) == \E i \in 1..Len(rs) : rs[i].vector.dim # rs[1].vector.dim

\* An insert that sends the upload again when the remote failed it.
DoPutRetries(e, rs, env) ==
    IF e.exc # "none" THEN [w |-> e.w, exc |-> e.exc, ret |-> FALSE]
    ELSE IF Ragged(rs) THEN [w |-> e.w, exc |-> "ValueError", ret |-> FALSE]
    ELSE IF ~e.w.up \/ ~env.uploadOk
         THEN [w |-> Emit(Emit(e.w, "upload_fail"), "upload_fail"),
               exc |-> "FlightError", ret |-> FALSE]
    ELSE [w |-> Emit([e.w EXCEPT !.nsExists = TRUE,
                                 !.recs = @ \o [i \in 1..Len(rs) |-> WireRow(rs[i])]],
                     "upload_ok"),
          exc |-> "none", ret |-> TRUE]

\* The try block of insert over the batch rs, after _ensure_connected gave e:
\* the table is built with dim = len(vectors[0]) and uploaded; every failure
\* is re-raised. A DoPut on an absent namespace that the remote accepts
\* creates it.
DoPut(e, rs, env) ==
    IF e.exc # "none" THEN [w |-> e.w, exc |-> e.exc, ret |-> FALSE]
    ELSE IF Ragged(rs) THEN [w |-> e.w, exc |-> "ValueError", ret |-> FALSE]
    ELSE IF ~e.w.up \/ ~env.uploadOk
         THEN [w |-> Emit(e.w, "upload_fail"), exc |-> "FlightError", ret |-> FALSE]
    ELSE [w |-> Emit([e.w EXCEPT !.nsExists = TRUE,
                                 !.recs = @ \o [i \in 1..Len(rs) |-> WireRow(rs[i])]],
                     "upload_ok"),
          exc |-> "none", ret |-> TRUE]

\* LongbowClient.insert(namespace, records)
InsertRecords(w, rs, env) ==
    IF Len(rs) = 0 THEN [w |-> w, exc |-> "none", ret |-> TRUE]
    ELSE DoPut(EnsureConnected(w, env), rs, env)

\* LongbowClient.insert(namespace, [r])
Insert(w, r, env) == InsertRecords(w, <<r>>, env)

\* A decoding that loses the metadata cell.
DecodeCellLoses(cell) == EmptyDict

\* json.loads(cell or "{}")
DecodeCell(cell) == IF cell.kind = "json" THEN JsonLoads(cell.text) ELSE EmptyDict

\* One row of the downloaded table as a record dict.
DecodeRow(row) ==
    [id |-> row.id, vector |-> row.vector, metadata |-> DecodeCell(row.metadata),
     timestamp |-> row.timestamp]

\* for i in range(table.num_rows): results.append(record)
RECURSIVE DecodeRows(_)
DecodeRows(rows) ==
    IF Len(rows) = 0 THEN <<>> ELSE <<DecodeRow(Head(rows))>> \o DecodeRows(Tail(rows))

\* A DoGet of download_all that lets the remote's error for a namespace it
\* does not have reach the caller.
DoGetAllRaisesMissing(e, env) ==
    IF e.exc # "none" THEN [w |-> e.w, exc |-> e.exc, ret |-> <<>>]
    ELSE IF ~e.w.up \/ ~env.downloadOk
         THEN [w |-> Emit(e.w, "download_fail"), exc |-> "none", ret |-> <<>>]
    ELSE IF ~e.w.nsExists
         THEN [w |-> Emit(e.w, "download_missing"), exc |-> "FlightError", ret |-> <<>>]
    ELSE [w |-> Emit(e.w, "download_ok"), exc |-> "none", ret |-> DecodeRows(e.w.recs)]

\* The DoGet of download_all, after _ensure_connected gave e: a failed request,
\* and the remote's error for a namespace it does not have, give []
DoGetAll(e, env) ==
    IF e.exc # "none" THEN [w |-> e.w, exc |-> e.exc, ret |-> <<>>]
    ELSE IF ~e.w.up \/ ~env.downloadOk
         THEN [w |-> Emit(e.w, "download_fail"), exc |-> "none", ret |-> <<>>]
    ELSE IF ~e.w.nsExists
         THEN [w |-> Emit(e.w, "download_missing"), exc |-> "none", ret |-> <<>>]
    ELSE [w |-> Emit(e.w, "download_ok"), exc |-> "none", ret |-> DecodeRows(e.w.recs)]

\* LongbowClient.download_all(namespace)
DownloadAll(w, env) == DoGetAll(EnsureConnected(w, env), env)

\* A score is the fraction n / d.
Frac(n, d) == [n |-> n, d |-> d]

\* A score that is taken from the distance column whenever there is one.
RowScorePrefersDistance(table, row) ==
    IF table.scoreCol \in {"distance", "both"} THEN Frac(1, 1 + row.distance)
    ELSE IF table.scoreCol = "score" THEN Frac(row.score, 1)
    ELSE Frac(1, 1)

\* The score of one row of the query response, by the columns the table has.
RowScore(table, row) ==
    IF table.scoreCol \in {"score", "both"} THEN Frac(row.score, 1)
    ELSE IF table.scoreCol = "distance" THEN Frac(1, 1 + row.distance)
    ELSE Frac(1, 1)

\* raw_id = table["id"][i] if the table has an id column, else the row number i
RowRawId(table, i) == IF table.hasId THEN table.rows[i].id ELSE NatStr(i - 1)

\* for i in range(table.num_rows): results.append(result)
RECURSIVE DecodeQuery(_, _)
DecodeQuery(table, i) ==
    IF i > Len(table.rows) THEN <<>>
    ELSE <<[id |-> RowRawId(table, i), score |-> RowScore(table, table.rows[i])]>>
         \o DecodeQuery(table, i + 1)

\* A DoGet of search that lets the failure of the request reach the caller.
DoGetSearchRaises(e, table, env) ==
    IF e.exc # "none" THEN [w |-> e.w, exc |-> e.exc, ret |-> <<>>]
    ELSE IF ~e.w.up \/ ~env.queryOk
         THEN [w |-> Emit(e.w, "query_fail"), exc |-> "FlightError", ret |-> <<>>]
    ELSE [w |-> Emit(e.w, "query_ok"), exc |-> "none", ret |-> DecodeQuery(table, 1)]

\* The DoGet of search, after _ensure_connected gave e: a failure gives [] (a
\* distance of -1 divides by zero, which is caught like any other failure).
DoGetSearch(e, table, env) ==
    IF e.exc # "none" THEN [w |-> e.w, exc |-> e.exc, ret |-> <<>>]
    ELSE IF ~e.w.up \/ ~env.queryOk
         THEN [w |-> Emit(e.w, "query_fail"), exc |-> "none", ret |-> <<>>]
    ELSE IF ~e.w.nsExists
         THEN [w |-> Emit(e.w, "query_missing"), exc |-> "none", ret |-> <<>>]
    ELSE IF \E i \in 1..Len(table.rows) :
                table.scoreCol = "distance" /\ 1 + table.rows[i].distance = 0
         THEN [w |-> Emit(e.w, "query_ok"), exc |-> "none", ret |-> <<>>]
    ELSE [w |-> Emit(e.w, "query_ok"), exc |-> "none", ret |-> DecodeQuery(table, 1)]

\* LongbowClient.search(namespace, query_vector, k); table is the remote's answer
ClientSearch(w, table, env) == DoGetSearch(EnsureConnected(w, env), table, env)

\* -------------------------------------------------------------- MemoryStore
\* A facade call threads [s, w, exc, ret]: the store's fields, the world, the
\* exception raised so far and the value of the last step.
Step(s, r) == [s |-> s, w |-> r.w, exc |-> r.exc, ret |-> r.ret]

Raised(x) == [s |-> x.s, w |-> x.w, exc |-> x.exc, ret |-> None]

\* MemoryStore.__init__: no model, no client, namespace not ensured
NewStore == [model |-> FALSE, client |-> FALSE, initialized |-> FALSE]

\* A caller that builds a MemoryStore for every call.
GetStoreAlwaysNew(s, w, store) == [s |-> NewStore, w |-> Emit(w, "new_store")]

\* get_store(): the global store, created when _store is None
GetStore(s, w, store) ==
    IF store THEN [s |-> s, w |-> w] ELSE [s |-> NewStore, w |-> Emit(w, "new_store")]

\* MemoryStore._get_model: the SentenceTransformer is built when _model is None
GetModel(s, w) ==
    IF s.model THEN [s |-> s, w |-> w]
    ELSE [s |-> [s EXCEPT !.model = TRUE], w |-> Emit(w, "load_model")]

\* if not self._initialized: create_namespace(NAMESPACE); self._initialized = True
EnsureNamespace(s, c, env) ==
    IF c.exc # "none" THEN [s |-> s, w |-> c.w, exc |-> c.exc, ret |-> None]
    ELSE IF s.initialized THEN [s |-> s, w |-> c.w, exc |-> "none", ret |-> None]
    ELSE [s |-> [s EXCEPT !.initialized = TRUE], w |-> CreateNamespace(c.w, env).w,
          exc |-> "none", ret |-> None]

\* MemoryStore._get_client: the client is stored before connect() is tried
GetClient(s, w, env) ==
    IF s.client THEN [s |-> s, w |-> w, exc |-> "none", ret |-> None]
    ELSE EnsureNamespace([s EXCEPT !.client = TRUE],
                         Connect(Emit([w EXCEPT !.meta = FALSE, !.data = FALSE],
                                      "new_client"),
                                 DefaultMaxRetries, env),
                         env)

\* model = self._get_model(); ...encode...; client = self._get_client()
ModelThenClient(m, env) == GetClient(m.s, m.w, env)

\* The record dict add_memory uploads: caller metadata is merged last.
AddMemoryRecord(id, content, client_id, metadata, now) ==
    [id |-> id, vector |-> Embed(content),
     metadata |-> Merge([content |-> content, client_id |-> client_id,
                         created_at |-> IsoFormat(now)],
                        metadata),
     timestamp |-> IsoFormat(now)]

\* memory = Memory(id=str(uuid.uuid4()), ..., created_at=datetime.utcnow(), ...)
NewMemory(req, now) ==
    [id |-> Uuid(now), content |-> req.content,
     embedding |-> Some(Embed(req.content)), metadata |-> req.metadata,
     created_at |-> now, client_id |-> req.client_id]

\* An add_memory that logs a failed upload and returns the Memory all the same.
InsertAndReturnAnyway(g, memory, record, env) ==
    IF g.exc # "none" THEN Raised(g)
    ELSE [s |-> g.s, w |-> Insert(g.w, record, env).w, exc |-> "none",
          ret |-> Some(memory)]

\* client.insert(self.NAMESPACE, [record]); return memory
InsertAndReturn(g, memory, record, env) ==
    IF g.exc # "none" THEN Raised(g)
    ELSE IF Insert(g.w, record, env).exc # "none"
         THEN Raised(Step(g.s, Insert(g.w, record, env)))
         ELSE [s |-> g.s, w |-> Insert(g.w, record, env).w, exc |-> "none",
               ret |-> Some(memory)]

\* MemoryStore.add_memory(content, client_id, metadata)
AddMemory(s, w, req, env, now) ==
    InsertAndReturn(ModelThenClient(GetModel(s, w), env), NewMemory(req, now),
                    AddMemoryRecord(Uuid(now), req.content, req.client_id,
                                    req.metadata, now),
                    env)

\* all_records = client.download_all(self.NAMESPACE), after _get_client gave g
Download(g, env) ==
    IF g.exc # "none" THEN Raised(g) ELSE Step(g.s, DownloadAll(g.w, env))

\* r.get("metadata", {}).get("created_at", ""): the sort key of list_memories
CreatedKey(r) == IF "created_at" \in DOMAIN r.metadata THEN r.metadata["created_at"] ELSE <<>>

\* Where r goes in a list already sorted descending: after every element whose
\* key is not smaller (list.sort(reverse=True) keeps equal keys in their order).
RECURSIVE InsertDesc(_, _)
InsertDesc(sorted, r) ==
    IF Len(sorted) = 0 THEN <<r>>
    ELSE IF StrLess(CreatedKey(Head(sorted)), CreatedKey(r))
         THEN <<r>> \o sorted
         ELSE <<Head(sorted)>> \o InsertDesc(Tail(sorted), r)

\* A sort that leaves the download order.
SortKeepsOrder(rs) == rs

\* all_records.sort(key=created_at, reverse=True)
RECURSIVE SortDesc(_)
SortDesc(rs) ==
    IF Len(rs) = 0 THEN <<>>
    ELSE InsertDesc(SortDesc(SubSeq(rs, 1, Len(rs) - 1)), rs[Len(rs)])

\* A slice index of Python, clamped into 0..n
SliceIndex(i, n) == IF i < 0 THEN (IF n + i < 0 THEN 0 ELSE n + i) ELSE (IF i > n THEN n ELSE i)

\* rs[start:stop]
Slice(rs, start, stop) ==
    IF SliceIndex(start, Len(rs)) < SliceIndex(stop, Len(rs))
    THEN SubSeq(rs, SliceIndex(start, Len(rs)) + 1, SliceIndex(stop, Len(rs)))
    ELSE <<>>

\* A conversion that fails on a record without content.
ToMemoryNeedsContent(r, now) ==
    [ok  |-> "content" \in DOMAIN r.metadata,
     mem |-> [id |-> r.id, content |-> "", embedding |-> Some(r.vector),
              metadata |-> EmptyDict, created_at |-> now, client_id |-> "unknown"]]

\* The Memory built from a downloaded record (the same code in search and in
\* list_memories); fromisoformat raises ValueError on another format.
ToMemory(r, now) ==
    LET meta == r.metadata
        iso  == IF "created_at" \in DOMAIN meta THEN meta["created_at"] ELSE IsoFormat(now)
    IN [ok  |-> FromIso(iso).ok,
        mem |-> [id |-> r.id,
                 content |-> IF "content" \in DOMAIN meta THEN meta["content"] ELSE "",
                 embedding |-> Some(r.vector),
                 metadata |-> [k \in DOMAIN meta \ ReservedKeys |-> meta[k]],
                 created_at |-> FromIso(iso).val,
                 client_id |-> IF "client_id" \in DOMAIN meta THEN meta["client_id"]
                               ELSE "unknown"]]

\* for r in paginated: memories.append(Memory(...))
RECURSIVE ToMemories(_, _, _)
ToMemories(rs, now, acc) ==
    IF Len(rs) = 0 THEN [exc |-> "none", ret |-> acc]
    ELSE IF ~ToMemory(Head(rs), now).ok THEN [exc |-> "ValueError", ret |-> <<>>]
    ELSE ToMemories(Tail(rs), now, Append(acc, ToMemory(Head(rs), now).mem))

\* return memories, total
ListResult(d, built) ==
    IF built.exc # "none" THEN [s |-> d.s, w |-> d.w, exc |-> built.exc, ret |-> None]
    ELSE [s |-> d.s, w |-> d.w, exc |-> "none",
          ret |-> Some([memories |-> built.ret, total |-> Len(d.ret)])]

\* The sort, the slice and the conversion of list_memories over the download d
ListPage(d, limit, offset, now) ==
    IF d.exc # "none" THEN Raised(d)
    ELSE ListResult(d, ToMemories(Slice(SortDesc(d.ret), offset, offset + limit), now, <<>>))

\* MemoryStore.list_memories(limit, offset)
ListMemories(s, w, limit, offset, env, now) ==
    ListPage(Download(GetClient(s, w, env), env), limit, offset, now)

\* delete_namespace, create_namespace and return count, over the download d
DeleteAndRecreate(d, env) ==
    IF d.exc # "none" THEN Raised(d)
    ELSE [s |-> d.s, w |-> CreateNamespace(DeleteNamespace(d.w, env).w, env).w,
          exc |-> "none", ret |-> Some(Len(d.ret))]

\* MemoryStore.delete_all()
DeleteAll(s, w, env) == DeleteAndRecreate(Download(GetClient(s, w, env), env), env)

\* A loop that takes the first created_at it sees as oldest and the last as newest.
RECURSIVE StatsLoopByPosition(_, _)
StatsLoopByPosition(rs, acc) ==
    IF Len(rs) = 0 THEN acc
    ELSE LET meta == Head(rs).metadata
             cid == IF "client_id" \in DOMAIN meta THEN meta["client_id"] ELSE "unknown"
             created == IF "created_at" \in DOMAIN meta THEN Some(meta["created_at"]) ELSE None
         IN StatsLoopByPosition(Tail(rs),
                [clients |-> acc.clients \cup {cid},
                 oldest |-> IF acc.oldest = None THEN created ELSE acc.oldest,
                 newest |-> IF created # None THEN created ELSE acc.newest])

\* The loop of get_stats over the downloaded records.
RECURSIVE StatsLoop(_, _)
StatsLoop(rs, acc) ==
    IF Len(rs) = 0 THEN acc
    ELSE LET meta == Head(rs).metadata
             cid == IF "client_id" \in DOMAIN meta THEN meta["client_id"] ELSE "unknown"
             created == IF "created_at" \in DOMAIN meta THEN Some(meta["created_at"]) ELSE None
             seen == created # None /\ Len(created[1]) > 0
             oldest == IF seen /\ (acc.oldest = None \/ StrLess(created[1], acc.oldest[1]))
                       THEN created ELSE acc.oldest
             newest == IF seen /\ (acc.newest = None \/ StrLess(acc.newest[1], created[1]))
                       THEN created ELSE acc.newest
         IN StatsLoop(Tail(rs), [clients |-> acc.clients \cup {cid},
                                 oldest |-> oldest, newest |-> newest])

\* The dict get_stats returns, from the download d and the loop's result a
StatsResult(d, a) ==
    [s |-> d.s, w |-> d.w, exc |-> "none",
     ret |-> Some([total_memories |-> Len(d.ret),
                   unique_clients |-> Cardinality(a.clients),
                   oldest_memory |-> a.oldest,
                   newest_memory |-> a.newest,
                   backend |-> "longbow"])]

Aggregate(d) ==
    IF d.exc # "none" THEN Raised(d)
    ELSE StatsResult(d, StatsLoop(d.ret, [clients |-> {}, oldest |-> None, newest |-> None]))

\* MemoryStore.get_stats()
GetStats(s, w, env) == Aggregate(Download(GetClient(s, w, env), env))

\* ------------------------------------------------------------------- search
\* records_by_id[raw_id]: a later record of the same id replaces an earlier one
ById(all, raw) ==
    LET hits == {i \in 1..Len(all) : all[i].id = raw} IN
    IF hits = {} THEN None
    ELSE Some(all[CHOOSE i \in hits : \A j \in hits : j <= i])

\* records_by_index.get(idx)
ByIndex(all, idx) == IF idx >= 0 /\ idx < Len(all) THEN Some(all[idx + 1]) ELSE None

\* A resolution that tries the position first and the id second.
ResolvePositionFirst(all, raw) ==
    IF IntParse(raw).ok /\ ByIndex(all, IntParse(raw).val) # None
    THEN [exc |-> "none", rec |-> ByIndex(all, IntParse(raw).val)]
    ELSE [exc |-> "none", rec |-> ById(all, raw)]

\* The record a query row resolves to: by id first, by position second.
\* int(raw_id) raises ValueError for text that only looks like an integer.
Resolve(all, raw) ==
    IF ById(all, raw) # None THEN [exc |-> "none", rec |-> ById(all, raw)]
    ELSE IF IsDigit(raw) \/ IsDigit(LStripDash(raw))
         THEN IF IntParse(raw).ok
              THEN [exc |-> "none", rec |-> ByIndex(all, IntParse(raw).val)]
              ELSE [exc |-> "ValueError", rec |-> None]
         ELSE [exc |-> "none", rec |-> None]

\* A reconciliation that returns the resolved rows in download order.
ReconcileInDownloadOrder(rows, all, now, acc) ==
    [exc |-> "none",
     ret |-> [k \in 1..Cardinality({i \in 1..Len(all) :
                                      \E j \in 1..Len(rows) : rows[j].id = all[i].id}) |->
                LET i == CHOOSE i \in 1..Len(all) :
                            /\ \E j \in 1..Len(rows) : rows[j].id = all[i].id
                            /\ Cardinality({h \in 1..i :
                                   \E j \in 1..Len(rows) : rows[j].id = all[h].id}) = k
                    j == CHOOSE j \in 1..Len(rows) : rows[j].id = all[i].id
                IN [memory |-> ToMemory(all[i], now).mem, score |-> rows[j].score]]]

\* The reconciliation loop of MemoryStore.search over the query rows.
RECURSIVE Reconcile(_, _, _, _)
Reconcile(rows, all, now, acc) ==
    IF Len(rows) = 0 THEN [exc |-> "none", ret |-> acc]
    ELSE LET sr == Head(rows)
             r  == Resolve(all, sr.id)
         IN IF r.exc # "none" THEN [exc |-> r.exc, ret |-> <<>>]
            ELSE IF r.rec = None THEN Reconcile(Tail(rows), all, now, acc)
            ELSE IF ~ToMemory(r.rec[1], now).ok THEN [exc |-> "ValueError", ret |-> <<>>]
            ELSE Reconcile(Tail(rows), all, now,
                           Append(acc, [memory |-> ToMemory(r.rec[1], now).mem,
                                        score |-> sr.score]))

\* search_results_raw = client.search(...), after _get_client gave g
Query(g, table, env) ==
    IF g.exc # "none" THEN Raised(g) ELSE Step(g.s, ClientSearch(g.w, table, env))

\* return search_results
SearchResult(d, r) ==
    IF r.exc # "none" THEN [s |-> d.s, w |-> d.w, exc |-> r.exc, ret |-> None]
    ELSE [s |-> d.s, w |-> d.w, exc |-> "none", ret |-> Some(r.ret)]

\* The reconciliation of the query rows against the download d
Reconciled(rows, d, now) ==
    IF d.exc # "none" THEN Raised(d)
    ELSE SearchResult(d, Reconcile(rows, d.ret, now, <<>>))

\* all_records = client.download_all(...) and the loop, over the query q
DownloadAndReconcile(q, env, now) ==
    IF q.exc # "none" THEN Raised(q)
    ELSE Reconciled(q.ret, Step(q.s, DownloadAll(q.w, env)), now)

\* MemoryStore.search(query, top_k); table is what the remote answers the query
Search(s, w, table, env, now) ==
    DownloadAndReconcile(Query(ModelThenClient(GetModel(s, w), env), table, env), env, now)

\* ------------------------------------------------------------------ inputs
\* add_memory arguments that keep the data model's contract: the metadata map
\* uses none of the reserved keys.
Reqs ==
    { [content |-> "sky", client_id |-> "c1", metadata |-> EmptyDict],
      [content |-> "water", client_id |-> "c2", metadata |-> [tag |-> "x"]] }

\* Records other clients of the shared namespace upload through
\* LongbowClient.insert: a timestamp that ties with that of an add_memory, and
\* a record without created_at and client_id whose id is a numeric string.
OtherRecs ==
    { [id |-> <<"z">>, vector |-> Embed("tie"), timestamp |-> IsoFormat(2),
       metadata |-> [content |-> "tie", client_id |-> "c3", created_at |-> IsoFormat(2)]],
      [id |-> <<"0">>, vector |-> Embed("bare"), timestamp |-> IsoFormat(1),
       metadata |-> [content |-> "bare"]] }

\* Failed probes before a server that is starting answers; DefaultMaxRetries
\* or more means it stays down for the whole connect.
DownChoices(n) == (1..n) \cup {DefaultMaxRetries}

Flags == {"dataOk", "createOk", "downloadOk", "queryOk", "uploadOk", "deleteOk"}

\* What the remote does with the requests of one call: the probes a starting
\* server fails, and which kinds of request it serves. F = {TRUE}: it serves
\* every request it receives; F = BOOLEAN: any request may fail.
Envs(F) ==
    [downFor : DownChoices(MaxDownProbes), dataOk : F, createOk : F, downloadOk : F,
     queryOk : F, uploadOk : F, deleteOk : F]

\* The probes of a call matter only when it has to connect to a server that is down.
NeedsProbe == ~up /\ ~(client /\ metaClient /\ dataClient)

\* One env for each behaviour of the remote that a call issuing the request
\* kinds `uses` can tell apart.
Canonical(env, uses) ==
    /\ NeedsProbe \/ env.downFor = DefaultMaxRetries
    /\ \A f \in Flags \ uses : env[f]
    /\ (client /\ metaClient /\ dataClient) => env.dataOk

\* Rankings the remote answers a query with: up to k distinct rows of the
\* namespace, best first. The id column names each row by its id ("uuid") or
\* by its position in the namespace ("position"), or is absent ("none").
Rankings(k) ==
    UNION { { q \in [1..n -> 1..Len(recs)] : \A i, j \in 1..n : q[i] = q[j] => i = j }
            : n \in 0..k }

IdKinds == {"uuid", "position", "none"}

\* The rows of a response that ranks the raw ids `ids`, best first: scores
\* n, n-1, .., 1 and distances 0, 3, 6, ..
Rows(ids) ==
    [i \in 1..Len(ids) |->
        [id |-> ids[i], score |-> Len(ids) - i + 1, distance |-> 3 * (i - 1)]]

RankingTable(q, idKind, scoreCol) ==
    [hasId |-> idKind # "none", scoreCol |-> scoreCol,
     rows |-> Rows([i \in 1..Len(q) |->
                      IF idKind = "uuid" THEN recs[q[i]].id
                      ELSE IF idKind = "position" THEN NatStr(q[i] - 1)
                      ELSE <<>>])]

\* ----------------------------------------------------------------- actions
Init ==
    /\ up = FALSE /\ nsExists = FALSE /\ recs = <<>>
    /\ metaClient = FALSE /\ dataClient = FALSE
    /\ model = FALSE /\ client = FALSE /\ initialized = FALSE /\ _store = FALSE
    /\ ensured = FALSE /\ NoCallers
    /\ clock = 1
    /\ last = [op |-> "init", args |-> <<>>, exc |-> "none", ret |-> None,
               trace |-> <<>>, preCount |-> 0, hadClient |-> FALSE, afterFail |-> FALSE]
    /\ emptied = None
    /\ added = None

\* The state a call leaves behind.
Apply(r) ==
    /\ up' = r.w.up /\ nsExists' = r.w.nsExists /\ recs' = r.w.recs
    /\ metaClient' = r.w.meta /\ dataClient' = r.w.data
    /\ model' = r.s.model /\ client' = r.s.client /\ initialized' = r.s.initialized
    /\ _store' = TRUE
    /\ ensured' = (ensured \/ \E i \in 1..Len(r.w.trace) : r.w.trace[i] \in CreateEvents)
    /\ UNCHANGED <<pc, heap, websocket_clients>>

\* The last call was a search whose query request the remote failed.
QueryFailed ==
    last.op = "search" /\ \E i \in 1..Len(last.trace) : last.trace[i] = "query_fail"

Called(op, args, r) ==
    last' = [op |-> op, args |-> args, exc |-> r.exc, ret |-> r.ret,
             trace |-> r.w.trace, preCount |-> Len(recs), hadClient |-> client,
             afterFail |-> QueryFailed]

\* The Longbow servers come up.
ServerStart ==
    /\ ~up
    /\ up' = TRUE
    /\ last' = [op |-> "server_start", args |-> <<>>, exc |-> "none", ret |-> None,
                trace |-> <<>>, preCount |-> Len(recs), hadClient |-> client,
                afterFail |-> FALSE]
    /\ UNCHANGED <<websocket_clients, ensured, pc, heap, _store, nsExists, recs, metaClient, dataClient, model, client, initialized,
                   clock, emptied, added>>

\* Another client uploads one record into the namespace.
OtherInsert(r) ==
    /\ up
    /\ Len(recs) < MaxRecs
    /\ \A i \in 1..Len(recs) : recs[i].id # r.id
    /\ recs' = Append(recs, WireRow(r))
    /\ nsExists' = TRUE
    /\ last' = [op |-> "other_insert", args |-> <<r.id>>, exc |-> "none", ret |-> None,
                trace |-> <<"upload_ok">>, preCount |-> Len(recs), hadClient |-> client,
                afterFail |-> FALSE]
    /\ emptied' = None
    /\ added' = None
    /\ UNCHANGED <<websocket_clients, ensured, pc, heap, _store, up, metaClient, dataClient, model, client, initialized, clock>>

AddMemoryCall(req, env) ==
    /\ clock <= MaxClock
    /\ Len(recs) < MaxRecs
    /\ Canonical(env, {"dataOk", "createOk", "uploadOk"})
    /\ \E g \in {GetStore(Store, World, _store)} : \E r \in {AddMemory(g.s, g.w, req, env, clock)} :
       /\ Apply(r)
       /\ Called("add_memory", <<req>>, r)
       /\ added' = IF r.exc = "none" THEN Some([memory |-> r.ret[1], before |-> Len(recs)])
                   ELSE None
       /\ emptied' = None
    /\ clock' = clock + 1

ListMemoriesCall(limit, offset, env) ==
    /\ Canonical(env, {"dataOk", "createOk", "downloadOk"})
    /\ \E g \in {GetStore(Store, World, _store)} : \E r \in {ListMemories(g.s, g.w, limit, offset, env, clock)} :
       /\ Apply(r)
       /\ Called("list_memories", <<limit, offset>>, r)
    /\ UNCHANGED <<clock, emptied, added>>

GetStatsCall(env) ==
    /\ Canonical(env, {"dataOk", "createOk", "downloadOk"})
    /\ \E g \in {GetStore(Store, World, _store)} : \E r \in {GetStats(g.s, g.w, env)} :
       /\ Apply(r)
       /\ Called("get_stats", <<>>, r)
    /\ UNCHANGED <<clock, emptied, added>>

DeleteAllCall(env) ==
    /\ Canonical(env, {"dataOk", "createOk", "downloadOk", "deleteOk"})
    /\ \E g \in {GetStore(Store, World, _store)} : \E r \in {DeleteAll(g.s, g.w, env)} :
       /\ Apply(r)
       /\ Called("delete_all", <<>>, r)
       /\ emptied' = IF r.exc = "none" THEN r.ret ELSE None
    /\ added' = None
    /\ UNCHANGED clock

SearchCall(table, env) ==
    /\ Canonical(env, {"dataOk", "createOk", "queryOk", "downloadOk"})
    /\ \E g \in {GetStore(Store, World, _store)} : \E r \in {Search(g.s, g.w, table, env, clock)} :
       /\ Apply(r)
       /\ Called("search", <<table>>, r)
    /\ UNCHANGED <<clock, emptied, added>>

\* connect(max_retries) called on a client object of its own
ConnectCall(max_retries, env) ==
    /\ \E r \in {Connect([World EXCEPT !.meta = FALSE, !.data = FALSE], max_retries, env)} :
       /\ up' = r.w.up
       /\ metaClient' = r.w.meta
       /\ dataClient' = r.w.data
       /\ last' = [op |-> "connect", args |-> <<max_retries, env>>, exc |-> r.exc,
                   ret |-> None, trace |-> r.w.trace, preCount |-> Len(recs),
                   hadClient |-> FALSE, afterFail |-> FALSE]
    /\ UNCHANGED <<websocket_clients, ensured, pc, heap, _store, nsExists, recs, model, client, initialized, clock, emptied, added>>

\* ----------------------------------------------------- the running store
\* The store is built before the Longbow servers are up; they start, other
\* clients upload, and callers use the facade. The remote serves every
\* request it receives once it is up.
Next ==
    \/ ServerStart
    \/ \E r \in OtherRecs : OtherInsert(r)
    \/ \E req \in Reqs, env \in Envs({TRUE}) : AddMemoryCall(req, env)
    \/ \E limit \in {1, DefaultLimit}, offset \in {0, 1}, env \in Envs({TRUE}) :
          ListMemoriesCall(limit, offset, env)
    \/ \E env \in Envs({TRUE}) : GetStatsCall(env)
    \/ \E env \in Envs({TRUE}) : DeleteAllCall(env)
    \/ \E idKind \in IdKinds, env \in Envs({TRUE}) :
          \E q \in Rankings(MaxTopK) : SearchCall(RankingTable(q, idKind, "score"), env)

Spec == Init /\ [][Next]_vars

\* ------------------------------------------- the store on a failing remote
\* The same store, with a remote that may fail any request of a call: the
\* opening of the data channel, an action on the control channel, a DoGet or
\* a DoPut on the data channel.
NextFault ==
    \/ ServerStart
    \/ \E req \in Reqs, env \in Envs(BOOLEAN) : AddMemoryCall(req, env)
    \/ \E env \in Envs(BOOLEAN) : ListMemoriesCall(DefaultLimit, 0, env)
    \/ \E env \in Envs(BOOLEAN) : GetStatsCall(env)
    \/ \E env \in Envs(BOOLEAN) : DeleteAllCall(env)
    \/ \E env \in Envs(BOOLEAN) :
          \E q \in Rankings(MaxTopK) : SearchCall(RankingTable(q, "uuid", "score"), env)

SpecFault == Init /\ [][NextFault]_vars

\* -------------------------------------------------- a single connect call
\* One connect(max_retries) on a fresh client, for each max_retries and each
\* behaviour of the remote: up already, answering after some failed probes,
\* or down throughout; the data channel opens or not.
Pending(args) ==
    [op |-> "input", args |-> args, exc |-> "none", ret |-> None,
     trace |-> <<>>, preCount |-> 0, hadClient |-> FALSE, afterFail |-> FALSE]

RetriesArgs == (0..MaxRetriesArg) \cup {DefaultMaxRetries}

ConnectEnvs ==
    [downFor : DownChoices(MaxRetriesArg), dataOk : BOOLEAN, createOk : {TRUE},
     downloadOk : {TRUE}, queryOk : {TRUE}, uploadOk : {TRUE}, deleteOk : {TRUE}]

InitConnect ==
    /\ up \in BOOLEAN /\ nsExists = FALSE /\ recs = <<>>
    /\ metaClient = FALSE /\ dataClient = FALSE
    /\ model = FALSE /\ client = FALSE /\ initialized = FALSE /\ _store = FALSE
    /\ ensured = FALSE /\ NoCallers
    /\ clock = 1
    /\ \E max_retries \in RetriesArgs, env \in ConnectEnvs :
          /\ up => env.downFor = DefaultMaxRetries
          /\ last = Pending(<<max_retries, env>>)
    /\ emptied = None
    /\ added = None

NextConnect == last.op = "input" /\ ConnectCall(last.args[1], last.args[2])

SpecConnect == InitConnect /\ [][NextConnect]_vars

\* ------------------------------------------- a single call on a namespace
\* Records a namespace can hold: two that add_memory uploaded, and those of
\* other clients.
NsPool ==
    { AddMemoryRecord(Uuid(1), "sky", "c1", EmptyDict, 1),
      AddMemoryRecord(Uuid(2), "water", "c2", [tag |-> "x"], 2) } \cup OtherRecs

\* The namespaces of up to MaxNs of these records, in any download order.
Namespaces ==
    UNION { { ns \in [1..n -> NsPool] : \A i, j \in 1..n : ns[i] = ns[j] => i = j }
            : n \in 0..MaxNs }

\* A store that is connected to a remote whose namespace holds rows, about to
\* make the call with arguments args.
ConnectedTo(rows, args) ==
    /\ up = TRUE /\ nsExists = TRUE /\ recs = rows
    /\ metaClient = TRUE /\ dataClient = TRUE
    /\ model = TRUE /\ client = TRUE /\ initialized = TRUE /\ _store = TRUE
    /\ ensured = TRUE /\ NoCallers
    /\ clock = MaxClock + 1
    /\ last = Pending(args)
    /\ emptied = None
    /\ added = None

\* The same, for a namespace given by the records that were uploaded.
Connected(ns, args) == ConnectedTo([i \in 1..Len(ns) |-> WireRow(ns[i])], args)

\* One list_memories(limit, offset) for each namespace and each limit and offset.
InitList ==
    \E ns \in Namespaces, limit \in 0..MaxLimit, offset \in 0..MaxLimit :
       Connected(ns, <<limit, offset>>)

NextList ==
    \E env \in Envs({TRUE}) :
       last.op = "input" /\ ListMemoriesCall(last.args[1], last.args[2], env)

SpecList == InitList /\ [][NextList]_vars

\* GET /memories and the WebSocket list_memories action pass any integers:
\* one list_memories(limit, offset) for each namespace and each limit and
\* offset, negative ones included.
InitListAny ==
    \E ns \in Namespaces, limit \in (0 - MaxLimit)..MaxLimit, offset \in (0 - MaxLimit)..MaxLimit :
       Connected(ns, <<limit, offset>>)

SpecListAny == InitListAny /\ [][NextList]_vars

\* Raw ids a query response can carry: ids of records, positions in and out
\* of range, a negative integer, integer-like text, unknown text.
RawIds ==
    { Uuid(1), <<"0">>, <<"1">>, <<"9">>, <<"-", "1">>, <<"-", "-", "1">>, <<"z", "z">> }

ScoreCols == {"score", "distance", "both", "none"}

\* The query responses of up to MaxRows rows, with and without an id column.
QueryTables ==
    UNION { { [hasId |-> TRUE, scoreCol |-> c, rows |-> Rows(ids)]
              : ids \in [1..n -> RawIds], c \in ScoreCols }
            \cup { [hasId |-> FALSE, scoreCol |-> c, rows |-> Rows([i \in 1..n |-> <<>>])]
                   : c \in ScoreCols }
            : n \in 0..MaxRows }

\* One search for each namespace and each query response.
InitReconcile ==
    \E ns \in Namespaces, table \in QueryTables : Connected(ns, <<table>>)

NextReconcile ==
    \E env \in Envs({TRUE}) : last.op = "input" /\ SearchCall(last.args[1], env)

SpecReconcile == InitReconcile /\ [][NextReconcile]_vars

\* --------------------------------- a single read of incomplete records
\* The metadata an upload of content, client_id and created_at carries, in
\* two variants.
FullMeta(x) ==
    [content |-> IF x THEN "water" ELSE "sky",
     client_id |-> IF x THEN "c2" ELSE "c1",
     created_at |-> IsoFormat(IF x THEN 2 ELSE 1)]

KeyCode(K) ==
    (IF "content" \in K THEN 1 ELSE 0) + (IF "client_id" \in K THEN 2 ELSE 0)
    + (IF "created_at" \in K THEN 4 ELSE 0)

\* A record another writer uploaded with only the reserved keys K, and with
\* a key of its own in variant x.
MetaRecord(K, x) ==
    [id |-> <<"z", DigitChar(KeyCode(K)), DigitChar(IF x THEN 1 ELSE 0)>>,
     vector |-> Embed("m"), timestamp |-> IsoFormat(1),
     metadata |-> Merge([k \in K |-> FullMeta(x)[k]],
                        IF x THEN [tag |-> "x"] ELSE EmptyDict)]

\* A row whose metadata cell is empty.
EmptyCellRow ==
    [id |-> <<"z">>, vector |-> Embed("m"),
     metadata |-> [kind |-> "empty", text |-> {}], timestamp |-> IsoFormat(1)]

MetaRows ==
    { WireRow(MetaRecord(K, x)) : K \in SUBSET ReservedKeys, x \in BOOLEAN }
    \cup {EmptyCellRow}

MetaNamespaces ==
    UNION { { ns \in [1..n -> MetaRows] : \A i, j \in 1..n : ns[i] = ns[j] => i = j }
            : n \in 0..MaxMetaRecs }

\* One list_memories, search or get_stats for each such namespace.
InitMeta ==
    \E ns \in MetaNamespaces, op \in {"list_memories", "search", "get_stats"} :
       ConnectedTo(ns, <<op>>)

\* The query response that ranks every row of the namespace by its id.
AllRows == RankingTable([i \in 1..Len(recs) |-> i], "uuid", "score")

NextMeta ==
    \/ \E env \in Envs({TRUE}) :
          last.op = "input" /\ last.args[1] = "list_memories"
             /\ ListMemoriesCall(DefaultLimit, 0, env)
    \/ \E env \in Envs({TRUE}) :
          last.op = "input" /\ last.args[1] = "search" /\ SearchCall(AllRows, env)
    \/ \E env \in Envs({TRUE}) :
          last.op = "input" /\ last.args[1] = "get_stats" /\ GetStatsCall(env)

SpecMeta == InitMeta /\ [][NextMeta]_vars

\* ------------------------------------- a single add_memory of any metadata
\* Values a caller can give the reserved keys in the metadata argument.
CallerValues == [content |-> "other", client_id |-> "c9", created_at |-> IsoFormat(9)]

\* Any metadata argument: the API hands the caller's object to add_memory as
\* it is.
AnyMetadata ==
    { Merge([k \in K |-> CallerValues[k]], IF x THEN [tag |-> "x"] ELSE EmptyDict)
      : K \in SUBSET ReservedKeys, x \in BOOLEAN }

AnyReqs ==
    { [content |-> c, client_id |-> "c1", metadata |-> m]
      : c \in {"sky", "water"}, m \in AnyMetadata }

\* The namespaces of other clients' records that leave room for one more.
RoomyNamespaces ==
    UNION { { ns \in [1..n -> OtherRecs] : \A i, j \in 1..n : ns[i] = ns[j] => i = j }
            : n \in 0..(MaxRecs - 1) }

\* One add_memory for each such namespace and each argument, then a listing.
InitAdd ==
    \E ns \in RoomyNamespaces, req \in AnyReqs :
       /\ up = TRUE /\ nsExists = TRUE /\ recs = [i \in 1..Len(ns) |-> WireRow(ns[i])]
       /\ metaClient = TRUE /\ dataClient = TRUE
       /\ model = TRUE /\ client = TRUE /\ initialized = TRUE /\ _store = TRUE
       /\ ensured = TRUE /\ NoCallers
       /\ clock = 1
       /\ last = Pending(<<req>>)
       /\ emptied = None
       /\ added = None

NextAdd ==
    \/ \E env \in Envs({TRUE}) : last.op = "input" /\ AddMemoryCall(last.args[1], env)
    \/ \E env \in Envs({TRUE}) :
          last.op = "add_memory" /\ ListMemoriesCall(DefaultLimit, 0, env)

SpecAdd == InitAdd /\ [][NextAdd]_vars

\* -------------------------------------------------- a single insert call
\* Vector lengths a caller of insert can pass.
VectorDims == {EMBEDDING_DIM - 1, EMBEDDING_DIM, EMBEDDING_DIM + 1}

\* The batches of up to MaxBatch records, each with a vector of some length.
Batches ==
    UNION { { [i \in 1..n |->
                 [id |-> <<"z", DigitChar(i)>>, vector |-> [dim |-> dims[i], of |-> "v"],
                  metadata |-> EmptyDict, timestamp |-> IsoFormat(1)]]
              : dims \in [1..n -> VectorDims] }
            : n \in 0..MaxBatch }

\* One insert(batch) on a connected client, for each batch.
InitInsert ==
    \E ns \in RoomyNamespaces, batch \in Batches :
       /\ up = TRUE /\ nsExists = TRUE /\ recs = [i \in 1..Len(ns) |-> WireRow(ns[i])]
       /\ metaClient = TRUE /\ dataClient = TRUE
       /\ model = FALSE /\ client = FALSE /\ initialized = FALSE /\ _store = FALSE
       /\ ensured = FALSE /\ NoCallers
       /\ clock = 1
       /\ last = Pending(<<batch>>)
       /\ emptied = None
       /\ added = None

\* insert(namespace, batch) called on the client
InsertCall(batch, env) ==
    /\ \E r \in {InsertRecords(World, batch, env)} :
       /\ up' = r.w.up /\ nsExists' = r.w.nsExists /\ recs' = r.w.recs
       /\ metaClient' = r.w.meta /\ dataClient' = r.w.data
       /\ last' = [op |-> "insert", args |-> <<batch>>, exc |-> r.exc,
                   ret |-> Some(r.ret), trace |-> r.w.trace, preCount |-> Len(recs),
                   hadClient |-> FALSE, afterFail |-> FALSE]
    /\ emptied' = None
    /\ added' = None
    /\ UNCHANGED <<websocket_clients, ensured, pc, heap, _store, model, client, initialized, clock>>

NextInsert ==
    \E uploadOk \in BOOLEAN :
       \E env \in {e \in Envs({TRUE, uploadOk}) :
                     e.downFor = DefaultMaxRetries /\ e.dataOk /\ e.createOk
                     /\ e.downloadOk /\ e.queryOk /\ e.deleteOk /\ e.uploadOk = uploadOk} :
          last.op = "input" /\ InsertCall(last.args[1], env)

SpecInsert == InitInsert /\ [][NextInsert]_vars

\* ------------------------------------------ two callers' first calls race
\* Two callers share one MemoryStore and make their first call at the same
\* time; the store has no lock. The steps are the reads and writes of
\* _get_client, connect and _ensure_connected, interleaved in any order; the
\* remote is up and serves every request.
Healthy ==
    [downFor |-> DefaultMaxRetries, dataOk |-> TRUE, createOk |-> TRUE,
     downloadOk |-> TRUE, queryOk |-> TRUE, uploadOk |-> TRUE, deleteOk |-> TRUE]

\* The remote and the client object o, as one request sees them.
WorldOf(o) ==
    [up |-> up, nsExists |-> nsExists, recs |-> recs,
     meta |-> heap.of[o].meta, data |-> heap.of[o].data, trace |-> <<>>]

\* What a step of caller t leaves: its position, the object _client refers
\* to, and the requests it issued appended to the log of the race.
Moved(t, to, events) ==
    /\ pc' = [pc EXCEPT ![t] = to]
    /\ last' = [last EXCEPT !.trace = @ \o events]
    /\ ensured' = (ensured \/ \E i \in 1..Len(events) : events[i] \in CreateEvents)
    /\ client' = (heap'.cur # 0)
    /\ metaClient' = (heap'.cur # 0 /\ heap'.of[heap'.cur].meta)
    /\ dataClient' = (heap'.cur # 0 /\ heap'.of[heap'.cur].data)
    /\ UNCHANGED <<_store, up, emptied, added, websocket_clients>>

InitRace ==
    \E ns \in RoomyNamespaces, exists \in BOOLEAN, ops \in [Callers -> {"add_memory", "list_memories"}] :
       /\ exists \/ Len(ns) = 0
       /\ up = TRUE /\ nsExists = exists /\ recs = [i \in 1..Len(ns) |-> WireRow(ns[i])]
       /\ metaClient = FALSE /\ dataClient = FALSE
       /\ model = FALSE /\ client = FALSE /\ initialized = FALSE /\ _store = TRUE
       /\ ensured = FALSE
       /\ websocket_clients = {}
       /\ clock = 1
       /\ pc = [t \in Callers |->
                  [at |-> "start", op |-> ops[t], now |-> 0, client |-> 0, self |-> 0,
                   next |-> "none", channels |-> None, ret |-> None]]
       /\ heap = [cur |-> 0, of |-> [t \in Callers |-> [meta |-> FALSE, data |-> FALSE]]]
       /\ last = [op |-> "race", args |-> <<>>, exc |-> "none", ret |-> None,
                  trace |-> <<>>, preCount |-> Len(ns), hadClient |-> FALSE,
                  afterFail |-> FALSE]
       /\ emptied = None
       /\ added = None

\* The call begins: add_memory gets the model and draws its id and time; then
\* _get_client tests self._client and, when it is set, returns it.
Enter(t) ==
    /\ pc[t].at = "start"
    /\ model' = (model \/ pc[t].op = "add_memory")
    /\ clock' = IF pc[t].op = "add_memory" THEN clock + 1 ELSE clock
    /\ heap' = heap
    /\ Moved(t,
             [pc[t] EXCEPT !.at = IF heap.cur = 0 THEN "new_client" ELSE "request",
                           !.client = heap.cur,
                           !.now = IF pc[t].op = "add_memory" THEN clock ELSE 0],
             IF pc[t].op = "add_memory" /\ ~model THEN <<"load_model">> ELSE <<>>)
    /\ UNCHANGED <<nsExists, recs, initialized>>

\* self._client = LongbowClient(...)
NewClient(t) ==
    /\ pc[t].at = "new_client"
    /\ heap' = [cur |-> t, of |-> [heap.of EXCEPT ![t] = [meta |-> FALSE, data |-> FALSE]]]
    /\ Moved(t, [pc[t] EXCEPT !.at = "connect", !.self = 0, !.next = "ensure_namespace"],
             <<"new_client">>)
    /\ UNCHANGED <<nsExists, recs, initialized, model, clock>>

\* connect(), first half, on self._client as it is now or on the caller's
\* client: the control channel is opened and probed.
ConnectMeta(t) ==
    /\ pc[t].at = "connect"
    /\ \E o \in {IF pc[t].self = 0 THEN heap.cur ELSE pc[t].self} :
       /\ heap' = [heap EXCEPT !.of[o].meta = TRUE]
       /\ Moved(t, [pc[t] EXCEPT !.at = "open_data", !.self = o], <<"probe_ok">>)
    /\ UNCHANGED <<nsExists, recs, initialized, model, clock>>

\* connect(), second half: the data channel is opened.
ConnectData(t) ==
    /\ pc[t].at = "open_data"
    /\ heap' = [heap EXCEPT !.of[pc[t].self].data = TRUE]
    /\ Moved(t, [pc[t] EXCEPT !.at = pc[t].next, !.self = 0], <<"open_data">>)
    /\ UNCHANGED <<nsExists, recs, initialized, model, clock>>

\* if not self._initialized: self._client.create_namespace(NAMESPACE)
EnsureNamespaceOnce(t) ==
    /\ pc[t].at = "ensure_namespace"
    /\ IF initialized
       THEN /\ heap' = heap
            /\ Moved(t, [pc[t] EXCEPT !.at = "request", !.client = heap.cur], <<>>)
            /\ UNCHANGED <<nsExists, recs>>
       ELSE \E r \in {CreateNamespace(WorldOf(heap.cur), Healthy)} :
            /\ nsExists' = r.w.nsExists /\ recs' = r.w.recs
            /\ heap' = [heap EXCEPT !.of[heap.cur] = [meta |-> r.w.meta, data |-> r.w.data]]
            /\ Moved(t, [pc[t] EXCEPT !.at = "set_initialized"], r.w.trace)
    /\ UNCHANGED <<initialized, model, clock>>

\* self._initialized = True; return self._client
SetInitialized(t) ==
    /\ pc[t].at = "set_initialized"
    /\ initialized' = TRUE
    /\ heap' = heap
    /\ Moved(t, [pc[t] EXCEPT !.at = "request", !.client = heap.cur], <<>>)
    /\ UNCHANGED <<nsExists, recs, model, clock>>

\* The request of the call on the client _get_client returned: insert or
\* download_all, each after _ensure_connected, which connects a client that
\* lacks a channel.
Request(t) ==
    /\ pc[t].at = "request"
    /\ IF ~(heap.of[pc[t].client].meta /\ heap.of[pc[t].client].data)
       THEN /\ heap' = heap
            /\ Moved(t, [pc[t] EXCEPT !.at = "connect", !.self = pc[t].client,
                                      !.next = "request"], <<>>)
            /\ UNCHANGED <<nsExists, recs>>
       ELSE \E r \in {IF pc[t].op = "add_memory"
                      THEN DoPut([w |-> WorldOf(pc[t].client), exc |-> "none"],
                                 <<AddMemoryRecord(Uuid(pc[t].now), "sky", "c1", EmptyDict,
                                                   pc[t].now)>>,
                                 Healthy)
                      ELSE DoGetAll([w |-> WorldOf(pc[t].client), exc |-> "none"], Healthy)} :
            /\ nsExists' = r.w.nsExists /\ recs' = r.w.recs
            /\ heap' = heap
            /\ Moved(t, [pc[t] EXCEPT !.at = IF r.exc = "none" THEN "done" ELSE "raised",
                                      !.channels = Some(heap.of[pc[t].client]),
                                      !.ret = IF pc[t].op = "add_memory"
                                              THEN Some(Uuid(pc[t].now))
                                              ELSE Some(Len(r.ret))],
                     r.w.trace)
    /\ UNCHANGED <<initialized, model, clock>>

NextRace ==
    \E t \in Callers :
       \/ Enter(t)
       \/ NewClient(t)
       \/ ConnectMeta(t)
       \/ ConnectData(t)
       \/ EnsureNamespaceOnce(t)
       \/ SetInitialized(t)
       \/ Request(t)

SpecRace == InitRace /\ [][NextRace]_vars

\* ------------------------------------------------- the request layer
\* The REST endpoints, the WebSocket actions and the MCP tools hand their
\* arguments to methods of the store.
Paths == {"rest", "ws", "mcp"}

SearchModes == {"search", "hybrid_search", "filtered_search", "search_by_id"}

\* The public methods class MemoryStore defines.
StoreMethods == {"add_memory", "search", "list_memories", "delete_all", "get_stats"}

Weights == {-1, 0, 1}

Hops == {0, 1, HopCeiling, HopCeiling + 1}

\* Requests for an edge from memory A to memory B (the WebSocket has no such
\* action), for a traversal from A or B, and for each search mode.
BoundaryRequests ==
    { [path |-> p, action |-> "add_edge", weight |-> x, max_hops |-> 0, start |-> "A"]
      : p \in {"rest", "mcp"}, x \in Weights }
    \cup { [path |-> p, action |-> "traverse", weight |-> 0, max_hops |-> h, start |-> a]
           : p \in Paths, h \in Hops, a \in {"A", "B"} }
    \cup { [path |-> p, action |-> m, weight |-> 0, max_hops |-> 0, start |-> "A"]
           : p \in Paths, m \in SearchModes }

\* The checks made before the store is called: the Field constraints of
\* AddEdgeRequest and TraverseRequest, on the REST path only; the WebSocket
\* and the MCP tools read the arguments with dict.get.
Validated(req) ==
    req.path = "rest"
       => /\ req.action = "add_edge" => req.weight >= 0
          /\ req.action = "traverse" => 1 <= req.max_hops /\ req.max_hops <= HopCeiling

\* The remote's answer to the query of a search: every row, in download order.
FullRanking(w) ==
    [hasId |-> TRUE, scoreCol |-> "score",
     rows |-> Rows([i \in 1..Len(w.recs) |-> w.recs[i].id])]

\* store.<action>(...): a method the class does not define raises
\* AttributeError; the handlers of the WebSocket and of the MCP tools report
\* it as an error message.
Dispatch(s, w, req, now) ==
    IF ~Validated(req) THEN [s |-> s, w |-> w, exc |-> "ValidationError", ret |-> None]
    ELSE IF req.action \notin StoreMethods
         THEN [s |-> s, w |-> Emit(w, "store_call"), exc |-> "AttributeError", ret |-> None]
    ELSE Search(s, Emit(w, "store_call"), FullRanking(w), Healthy, now)

\* One request served by its handler.
BoundaryCall(req) ==
    /\ \E g \in {GetStore(Store, World, _store)} : \E r \in {Dispatch(g.s, g.w, req, clock)} :
       /\ Apply(r)
       /\ last' = [op |-> "boundary", args |-> <<req>>, exc |-> r.exc, ret |-> r.ret,
                   trace |-> r.w.trace, preCount |-> Len(recs), hadClient |-> client,
                   afterFail |-> FALSE]
    /\ added' = IF req.action = "add_edge"
                THEN Some([edge |-> <<"A", "B">>, weight |-> req.weight])
                ELSE added
    /\ UNCHANGED <<clock, emptied>>

\* One request on a connected store, for each request and namespace.
InitBoundary ==
    \E ns \in RoomyNamespaces, req \in BoundaryRequests :
       /\ up = TRUE /\ nsExists = TRUE /\ recs = [i \in 1..Len(ns) |-> WireRow(ns[i])]
       /\ metaClient = TRUE /\ dataClient = TRUE
       /\ model = TRUE /\ client = TRUE /\ initialized = TRUE /\ _store = TRUE
       /\ ensured = TRUE /\ NoCallers
       /\ clock = 1
       /\ last = Pending(<<req>>)
       /\ emptied = None
       /\ added = None

\* The request is served; after an add_edge, a one-hop traversal is requested.
NextBoundary ==
    \/ last.op = "input" /\ BoundaryCall(last.args[1])
    \/ \E req \in BoundaryRequests :
          /\ last.op = "boundary" /\ last.args[1].action = "add_edge"
          /\ req.action = "traverse" /\ req.max_hops = 1 /\ req.path = last.args[1].path
          /\ BoundaryCall(req)

SpecBoundary == InitBoundary /\ [][NextBoundary]_vars

\* ------------------------------ one call interleaved with another caller's
\* Caller 1 is inside delete_all or search on a connected store while the
\* other caller's add_memory and delete_all run to completion between its
\* requests; the remote is up and serves every request.
QuietNamespaces == {ns \in RoomyNamespaces : \A i \in 1..Len(ns) : ns[i].id = <<"z">>}

InitInterleave ==
    \E ns \in QuietNamespaces, op \in {"delete_all", "search"} :
       /\ up = TRUE /\ nsExists = TRUE /\ recs = [i \in 1..Len(ns) |-> WireRow(ns[i])]
       /\ metaClient = TRUE /\ dataClient = TRUE
       /\ model = TRUE /\ client = TRUE /\ initialized = TRUE /\ _store = TRUE
       /\ ensured = TRUE
       /\ websocket_clients = {}
       /\ clock = 1
       /\ pc = [t \in Callers |->
                  [at |-> IF t = 1 THEN "start" ELSE "idle", op |-> op, seen |-> {},
                   rows |-> <<>>, ranked |-> <<>>, ret |-> None]]
       /\ heap = [cur |-> 0, of |-> [t \in Callers |-> [meta |-> FALSE, data |-> FALSE]]]
       /\ last = [op |-> "interleave", args |-> <<>>, exc |-> "none", ret |-> None,
                  trace |-> <<>>, preCount |-> Len(ns), hadClient |-> TRUE,
                  afterFail |-> FALSE]
       /\ emptied = None
       /\ added = None

\* What one request of caller 1 leaves: the remote as the request left it and
\* the caller's position.
Requested(to, r) ==
    /\ up' = r.w.up /\ nsExists' = r.w.nsExists /\ recs' = r.w.recs
    /\ metaClient' = r.w.meta /\ dataClient' = r.w.data
    /\ pc' = [pc EXCEPT ![1] = to]
    /\ UNCHANGED <<_store, model, client, initialized, ensured, heap, websocket_clients,
                   clock, last, emptied, added>>

\* all_records = client.download_all(self.NAMESPACE); count = len(all_records)
DeleteAllCount ==
    /\ pc[1].at = "start" /\ pc[1].op = "delete_all"
    /\ \E r \in {DownloadAll(World, Healthy)} :
          Requested([pc[1] EXCEPT !.at = IF r.exc = "none" THEN "delete" ELSE "raised",
                                  !.seen = {r.ret[i].id : i \in 1..Len(r.ret)},
                                  !.ret = Some(Len(r.ret))], r)

\* client.delete_namespace(self.NAMESPACE)
DeleteAllDelete ==
    /\ pc[1].at = "delete"
    /\ \E r \in {DeleteNamespace(World, Healthy)} :
          Requested([pc[1] EXCEPT !.at = "recreate"], r)

\* client.create_namespace(self.NAMESPACE); return count
DeleteAllRecreate ==
    /\ pc[1].at = "recreate"
    /\ \E r \in {CreateNamespace(World, Healthy)} :
          Requested([pc[1] EXCEPT !.at = "done"], r)

\* search_results_raw = client.search(...): the remote ranks q, best first,
\* and names the rows by id or by position.
SearchQuery(q, idKind) ==
    /\ pc[1].at = "start" /\ pc[1].op = "search"
    /\ \E r \in {ClientSearch(World, RankingTable(q, idKind, "score"), Healthy)} :
          Requested([pc[1] EXCEPT !.at = IF r.exc = "none" THEN "download" ELSE "raised",
                                  !.rows = r.ret,
                                  !.ranked = [i \in 1..Len(q) |-> recs[q[i]].id]], r)

\* all_records = client.download_all(...), then the reconciliation loop
SearchDownload ==
    /\ pc[1].at = "download"
    /\ \E d \in {DownloadAll(World, Healthy)} :
       \E r \in {IF d.exc # "none" THEN [exc |-> d.exc, ret |-> <<>>]
                 ELSE Reconcile(pc[1].rows, d.ret, clock, <<>>)} :
          Requested([pc[1] EXCEPT !.at = IF r.exc = "none" THEN "done" ELSE "raised",
                                  !.ret = Some(r.ret)], d)

\* The other caller's delete_all, while caller 1 searches.
OtherDeleteAll == pc[1].op = "search" /\ DeleteAllCall(Healthy)

NextInterleave ==
    \/ DeleteAllCount
    \/ DeleteAllDelete
    \/ DeleteAllRecreate
    \/ \E q \in Rankings(MaxTopK), idKind \in {"uuid", "position"} : SearchQuery(q, idKind)
    \/ SearchDownload
    \/ \E req \in Reqs : AddMemoryCall(req, Healthy)
    \/ OtherDeleteAll

SpecInterleave == InitInterleave /\ [][NextInterleave]_vars

\* ------------------------------------------------- the WebSocket clients
\* Each connection runs websocket_endpoint as a task of the event loop, and a
\* broadcast_update runs beside them (pc[0]); a task gives way to the others
\* where it awaits. A connection is one of Callers; pc[c].peer tells whether
\* the connection is open, so that a send on it succeeds.
Running == {"greet", "loop", "reply"}

Messages == {"ping", "invalid_json", "unknown_action", "store_error"}

InitWs ==
    /\ up = TRUE /\ nsExists = TRUE /\ recs = <<>>
    /\ metaClient = TRUE /\ dataClient = TRUE
    /\ model = TRUE /\ client = TRUE /\ initialized = TRUE /\ _store = TRUE
    /\ ensured = TRUE
    /\ websocket_clients = {}
    /\ clock = 1
    /\ pc = [t \in Callers \cup {0} |->
               IF t = 0
               THEN [at |-> "idle", size |-> 0, visited |-> {}, cur |-> 0, sent |-> {},
                     disconnected |-> {}, whole |-> {}]
               ELSE [at |-> "new", peer |-> FALSE, exc |-> "none", msg |-> "none"]]
    /\ heap = [cur |-> 0, of |-> [t \in Callers |-> [meta |-> FALSE, data |-> FALSE]]]
    /\ last = [op |-> "ws", args |-> <<>>, exc |-> "none", ret |-> None,
               trace |-> <<>>, preCount |-> 0, hadClient |-> TRUE, afterFail |-> FALSE]
    /\ emptied = None
    /\ added = None

\* The WebSocket tasks leave the store and the remote as they are.
StoreKept ==
    UNCHANGED <<_store, up, nsExists, recs, metaClient, dataClient, model, client,
                initialized, clock, last, emptied, added, ensured, heap>>

\* Handlers that discard the websocket on a disconnect only.
DiscardedOnDisconnect(clients, c, exc) ==
    IF exc = "WebSocketDisconnect" THEN clients \ {c} ELSE clients

\* except WebSocketDisconnect: discard; except Exception: print, discard
Discarded(clients, c, exc) ==
    IF exc \in {"WebSocketDisconnect", "Exception"} THEN clients \ {c} ELSE clients

\* websocket_endpoint returns for c after exc reached its outer handlers; the
\* server closes the connection.
Returned(c, exc) ==
    /\ websocket_clients' = Discarded(websocket_clients, c, exc)
    /\ pc' = [pc EXCEPT ![c] = [at |-> "returned", peer |-> FALSE, exc |-> exc,
                                msg |-> pc[c].msg],
                        ![0].whole = @ \ {c}]

\* await websocket.accept(); websocket_clients.add(websocket); get_store()
\* and get_stats(), which raise when the store fails
WsAccept(c, statsOk) ==
    /\ pc[c].at = "new"
    /\ IF statsOk
       THEN /\ websocket_clients' = websocket_clients \cup {c}
            /\ pc' = [pc EXCEPT ![c].at = "greet", ![c].peer = TRUE]
       ELSE \E added_ \in {websocket_clients \cup {c}} :
            /\ websocket_clients' = Discarded(added_, c, "Exception")
            /\ pc' = [pc EXCEPT ![c] = [at |-> "returned", peer |-> FALSE,
                                        exc |-> "Exception", msg |-> "get_stats"]]
    /\ StoreKept

\* The peer closes the connection.
PeerDisconnect(c) ==
    /\ pc[c].at \in Running /\ pc[c].peer
    /\ pc' = [pc EXCEPT ![c].peer = FALSE]
    /\ UNCHANGED websocket_clients
    /\ StoreKept

\* await websocket.send_text(...): the "connected" greeting, the reply to a
\* message, or the error message of the inner handlers; a failed send leaves
\* the loop through the outer handlers.
WsSend(c) ==
    /\ pc[c].at \in {"greet", "reply"}
    /\ IF pc[c].peer
       THEN /\ pc' = [pc EXCEPT ![c].at = "loop"]
            /\ UNCHANGED websocket_clients
       ELSE Returned(c, "Exception")
    /\ StoreKept

\* message = await websocket.receive_text(), json.loads and the action, up
\* to the send of its reply or of the error message
WsReceive(c, msg) ==
    /\ pc[c].at = "loop"
    /\ IF pc[c].peer
       THEN /\ pc' = [pc EXCEPT ![c].at = "reply", ![c].msg = msg]
            /\ UNCHANGED websocket_clients
       ELSE Returned(c, "WebSocketDisconnect")
    /\ StoreKept

\* for client in websocket_clients, from the broadcast b up to the next
\* await: the iterator raises RuntimeError when the set changed size; it
\* yields every member that stayed, and may yield or miss one added
\* meanwhile. After the loop: websocket_clients.difference_update(disconnected)
BroadcastNext(b) ==
    IF Cardinality(websocket_clients) # b.size
    THEN /\ pc' = [pc EXCEPT ![0] = [b EXCEPT !.at = "raised"]]
         /\ UNCHANGED websocket_clients
    ELSE \/ \E c \in websocket_clients \ b.visited :
              /\ pc' = [pc EXCEPT ![0] = [b EXCEPT !.at = "send", !.cur = c,
                                                   !.visited = @ \cup {c}]]
              /\ UNCHANGED websocket_clients
         \/ /\ b.whole \subseteq b.visited
            /\ pc' = [pc EXCEPT ![0] = [b EXCEPT !.at = "returned"]]
            /\ websocket_clients' = websocket_clients \ b.disconnected

\* broadcast_update begins: disconnected = set(), iter(websocket_clients),
\* and the loop up to its first await
BroadcastStart ==
    /\ pc[0].at \in {"idle", "returned", "raised"}
    /\ BroadcastNext([at |-> "next", size |-> Cardinality(websocket_clients),
                      visited |-> {}, cur |-> 0, sent |-> {}, disconnected |-> {},
                      whole |-> websocket_clients])
    /\ StoreKept

\* try: await client.send_text(message) except: disconnected.add(client);
\* then the loop up to its next await
BroadcastSend ==
    /\ pc[0].at = "send"
    /\ BroadcastNext([pc[0] EXCEPT
                         !.sent = IF pc[pc[0].cur].peer THEN @ \cup {pc[0].cur} ELSE @,
                         !.disconnected = IF pc[pc[0].cur].peer THEN @
                                          ELSE @ \cup {pc[0].cur}])
    /\ StoreKept

NextWs ==
    \/ \E c \in Callers, statsOk \in BOOLEAN : WsAccept(c, statsOk)
    \/ \E c \in Callers : PeerDisconnect(c)
    \/ \E c \in Callers : WsSend(c)
    \/ \E c \in Callers, msg \in Messages : WsReceive(c, msg)
    \/ BroadcastStart
    \/ BroadcastSend

SpecWs == InitWs /\ [][NextWs]_vars

\* ----------------------------------------------------------- the MCP tools
\* Tool names a client may send: the nine of handle_tool_call and one it does
\* not know.
ToolNames ==
    {"add_memory", "search_memories", "list_memories", "delete_all_memories",
     "hybrid_search_memories", "search_similar_memory", "filtered_search_memories",
     "add_memory_edge", "traverse_memory_graph"}

\* The tools whose branch calls a method MemoryStore defines.
StoreTools == {"add_memory", "search_memories", "list_memories", "delete_all_memories"}

\* The branch of the tool: its call on the store with the defaults of
\* arguments.get; a method the class does not define raises AttributeError,
\* and the else branch raises ValueError("Unknown tool: ...").
ToolBranch(name, s, w, table, env, now) ==
    IF name = "add_memory"
    THEN AddMemory(s, w, [content |-> "sky", client_id |-> "mcp-client",
                          metadata |-> EmptyDict], env, now)
    ELSE IF name = "search_memories" THEN Search(s, w, table, env, now)
    ELSE IF name = "list_memories" THEN ListMemories(s, w, DefaultLimit, 0, env, now)
    ELSE IF name = "delete_all_memories" THEN DeleteAll(s, w, env)
    ELSE IF name \in ToolNames
         THEN [s |-> s, w |-> Emit(w, "store_call"), exc |-> "AttributeError", ret |-> None]
    ELSE [s |-> s, w |-> w, exc |-> "ValueError", ret |-> None]

\* The text of a tool's result, as the parts of its f-string.
ToolText(name, ret) ==
    IF name = "add_memory" THEN <<"Memory stored successfully. ID: ", ret.id>>
    ELSE IF name = "search_memories"
         THEN IF Len(ret) = 0 THEN <<"No memories found.">>
              ELSE <<"Found ", Len(ret), " memories:">>
    ELSE IF name = "list_memories"
         THEN <<"Showing ", Len(ret.memories), " of ", ret.total, " memories:">>
    ELSE <<"Deleted ", ret, " memories.">>

\* A handler without the except clause.
HandleToolCallUncaught(name, r) ==
    IF r.exc # "none" THEN Raised(r)
    ELSE [s |-> r.s, w |-> r.w, exc |-> "none",
          ret |-> Some(<<[type |-> "text", text |-> ToolText(name, r.ret[1])]>>)]

\* handle_tool_call / handle_call_tool over the outcome r of the branch:
\* except Exception as e: return [TextContent(type="text", text=f"Error: {e}")]
HandleToolCall(name, r) ==
    IF r.exc # "none"
    THEN [s |-> r.s, w |-> r.w, exc |-> "none",
          ret |-> Some(<<[type |-> "text", text |-> <<"Error: ", r.exc>>]>>)]
    ELSE [s |-> r.s, w |-> r.w, exc |-> "none",
          ret |-> Some(<<[type |-> "text", text |-> ToolText(name, r.ret[1])]>>)]

\* The requests the tool's store method may issue.
ToolUses(name) ==
    IF name = "add_memory" THEN {"dataOk", "createOk", "uploadOk"}
    ELSE IF name = "search_memories" THEN {"dataOk", "createOk", "queryOk", "downloadOk"}
    ELSE IF name = "list_memories" THEN {"dataOk", "createOk", "downloadOk"}
    ELSE IF name = "delete_all_memories" THEN {"dataOk", "createOk", "downloadOk", "deleteOk"}
    ELSE {}

\* One tools/call request served.
ToolCall(name, table, env) ==
    /\ name = "add_memory" => clock <= MaxClock /\ Len(recs) < MaxRecs
    /\ Canonical(env, ToolUses(name))
    /\ \E g \in {GetStore(Store, World, _store)} :
       \E b \in {ToolBranch(name, g.s, g.w, table, env, clock)} :
       \E r \in {HandleToolCall(name, b)} :
          /\ Apply(r)
          /\ last' = [op |-> "call_tool", args |-> <<name>>, exc |-> r.exc, ret |-> r.ret,
                      trace |-> r.w.trace, preCount |-> Len(recs), hadClient |-> client,
                      afterFail |-> FALSE, raised |-> b.exc]
    /\ clock' = IF name = "add_memory" THEN clock + 1 ELSE clock
    /\ UNCHANGED <<emptied, added>>

NextTool ==
    \/ ServerStart
    \/ \E name \in StoreTools, env \in Envs(BOOLEAN) :
          \E q \in Rankings(MaxTopK) : ToolCall(name, RankingTable(q, "uuid", "score"), env)
    \/ \E name \in (ToolNames \ StoreTools) \cup {"unknown_tool"} :
          ToolCall(name, RankingTable(<<>>, "uuid", "score"), Healthy)

SpecTool == Init /\ [][NextTool]_vars

\* -------------------------------------------------------------- properties
FacadeOps == {"add_memory", "search", "list_memories", "delete_all", "get_stats"}

RECURSIVE Count(_, _)
Count(trace, ev) ==
    IF Len(trace) = 0 THEN 0
    ELSE (IF Head(trace) = ev THEN 1 ELSE 0) + Count(Tail(trace), ev)

Probes(trace) == Count(trace, "probe_ok") + Count(trace, "probe_fail")

\* C1: delete_all() on a namespace of n records returns n; while nothing is
\* added afterwards, get_stats() reports total_memories = 0 and
\* list_memories() reports total = 0.
C1_DeleteAllCountsThenEmpties ==
    /\ (last.op = "delete_all" /\ last.exc = "none") => last.ret = Some(last.preCount)
    /\ (emptied # None /\ last.op = "get_stats")
          => (last.exc = "none" /\ last.ret[1].total_memories = 0)
    /\ (emptied # None /\ last.op = "list_memories")
          => (last.exc = "none" /\ last.ret[1].total = 0)

C1_Witness ==
    /\ emptied = Some(MaxRecs)
    /\ last.op = "get_stats"
    /\ last.ret[1].total_memories = 0

Min(a, b) == IF a < b THEN a ELSE b

Max(a, b) == IF a > b THEN a ELSE b

\* created_at of the i-th record of the namespace ("" when it has none)
KeyAt(i) == CreatedKey(DecodeRow(recs[i]))

\* The orderings of the namespace by created_at descending.
DescendingOrders ==
    { p \in Permutations(1..Len(recs)) :
        \A i, j \in 1..Len(recs) : i < j => ~StrLess(KeyAt(p[i]), KeyAt(p[j])) }

\* C2: list_memories(limit, offset) over N records, limit >= 0 and offset >= 0,
\* returns total = N and the records at positions offset .. offset+limit-1
\* (clipped to N) of the namespace ordered by created_at descending, in that
\* order: min(limit, max(0, N - offset)) memories.
C2_ListPage ==
    last.op = "list_memories"
    => /\ last.exc = "none"
       /\ LET limit == last.args[1]
              offset == last.args[2]
              ms == last.ret[1].memories
              N == Len(recs)
          IN /\ last.ret[1].total = N
             /\ Len(ms) = Min(limit, Max(0, N - offset))
             /\ \E p \in DescendingOrders :
                   \A j \in 1..Len(ms) : ms[j].id = recs[p[offset + j]].id

C2_Witness ==
    /\ last.op = "list_memories"
    /\ last.args = <<2, 1>>
    /\ Len(recs) = MaxNs
    /\ Len(last.ret[1].memories) = 2
    /\ last.ret[1].memories[1].id # recs[2].id

\* The raw id of the i-th row of the query response of the last search.
RawIdAt(i) == RowRawId(last.args[1], i)

\* The position in the namespace of the record that raw id names: the record
\* with that id, else the record at that 0-based position; 0 for none.
Named(raw) ==
    IF \E i \in 1..Len(recs) : recs[i].id = raw
    THEN CHOOSE i \in 1..Len(recs) : recs[i].id = raw
    ELSE IF IsDigit(raw) /\ DigitsValue(raw, 0) < Len(recs)
         THEN DigitsValue(raw, 0) + 1
         ELSE 0

\* The rows of the query response that name a record, in response order.
ResolvingRows ==
    SelectSeq([i \in 1..Len(last.args[1].rows) |-> i], LAMBDA i : Named(RawIdAt(i)) # 0)

\* C3: each query row is resolved by id first (also when the id is a numeric
\* string naming a valid position) and by position second; the result has an
\* entry for each row that resolves, so as many entries as rows when every
\* raw id is the id of a downloaded record.
C3_IdFirstThenPosition ==
    (last.op = "search" /\ last.exc = "none")
    => LET res == last.ret[1]
           rows == last.args[1].rows
       IN /\ Len(res) = Len(ResolvingRows)
          /\ \A k \in 1..Len(res) :
                res[k].memory.id = recs[Named(RawIdAt(ResolvingRows[k]))].id
          /\ (\A i \in 1..Len(rows) : \E h \in 1..Len(recs) : recs[h].id = RawIdAt(i))
                => Len(res) = Len(rows)

C3_Witness ==
    /\ last.op = "search"
    /\ last.exc = "none"
    /\ Len(recs) = MaxNs
    /\ recs[2].id = <<"0">>
    /\ last.args[1].hasId
    /\ Len(last.args[1].rows) = 2
    /\ last.args[1].rows[1].id = <<"0">>
    /\ last.args[1].rows[2].id = <<"1">>
    /\ Len(last.ret[1]) = 2
    /\ last.ret[1][1].memory.id = <<"0">>
    /\ last.ret[1][2].memory.id = recs[2].id

\* C4: for every raw id the remote can return (unknown UUID, out-of-range
\* integer, negative integer, integer-like text with several leading '-',
\* arbitrary text) search does not raise: it drops the rows that resolve to
\* nothing and returns the results of the others.
C4_UnresolvedRowsDropped ==
    last.op = "search"
    => /\ last.exc = "none"
       /\ Len(last.ret[1]) = Len(ResolvingRows)

C6_ReadYourWrites ==
    (added # None /\ last.op \in {"list_memories", "get_stats", "search"})
    => /\ last.exc = "none"
       /\ Count(last.trace, "download_ok") = 1
       /\ last.op = "get_stats" => last.ret[1].total_memories = added[1].before + 1
       /\ last.op = "list_memories" => last.ret[1].total = added[1].before + 1
       /\ (last.op = "list_memories" /\ last.args = <<DefaultLimit, 0>>)
          => LET ms == last.ret[1].memories
                 m == added[1].memory
                 hits == {i \in 1..Len(ms) : ms[i].id = m.id}
             IN /\ Cardinality(hits) = 1
                /\ \A i \in hits :
                      /\ ms[i].content = m.content
                      /\ ms[i].client_id = m.client_id
                      /\ ms[i].created_at = m.created_at
                      /\ ms[i].metadata = m.metadata

C6_Witness ==
    /\ added # None
    /\ added[1].before >= 1
    /\ added[1].memory.metadata # EmptyDict
    /\ last.op = "list_memories"
    /\ last.args = <<DefaultLimit, 0>>
    /\ Len(last.ret[1].memories) = added[1].before + 1

\* C7: while the control channel stays unreachable, every facade operation, on
\* the first call and on every later one, makes connect use up its attempts
\* and raises its ConnectionError instead of returning a result.
C7_ConnectionErrorPropagates ==
    (last.op \in FacadeOps /\ ~up)
    => /\ last.exc = "ConnectionError"
       /\ last.ret = None
       /\ Count(last.trace, "probe_fail") = DefaultMaxRetries
       /\ Count(last.trace, "probe_ok") = 0

C7_Witness ==
    /\ last.op = "delete_all"
    /\ last.hadClient
    /\ ~up
    /\ last.exc = "ConnectionError"

\* C8: connect(max_retries) with max_retries >= 1 probes the control channel
\* before it touches the data channel, probes at most max_retries times,
\* sleeps after each failed probe except the last of the budget, stops at the
\* first successful probe, and ends in success or in an error.
C8_ConnectRetries ==
    (last.op = "connect" /\ last.args[1] >= 1)
    => LET t == last.trace
           n == last.args[1]
       IN /\ Probes(t) >= 1 /\ Probes(t) <= n
          /\ Count(t, "probe_ok") <= 1
          /\ \A i \in 1..Len(t) :
                /\ t[i] = "probe_ok"
                      => \A j \in (i + 1)..Len(t) : t[j] \in {"open_data", "open_data_fail"}
                /\ t[i] \in {"open_data", "open_data_fail"} => i = Len(t)
                /\ t[i] = "probe_fail"
                      => IF Probes(SubSeq(t, 1, i)) = n THEN i = Len(t)
                         ELSE i < Len(t) /\ t[i + 1] = "sleep"
                /\ t[i] = "sleep" => i > 1 /\ t[i - 1] = "probe_fail"
          /\ last.exc \in {"none", "ConnectionError", "FlightError"}
          /\ last.exc = "ConnectionError" <=> Count(t, "probe_ok") = 0
          /\ last.exc = "ConnectionError" => Probes(t) = n
          /\ last.exc = "none" <=> Count(t, "open_data") = 1

C8_Witness ==
    /\ last.op = "connect"
    /\ last.args[1] = MaxRetriesArg
    /\ Count(last.trace, "probe_fail") = MaxRetriesArg - 1
    /\ Count(last.trace, "sleep") = MaxRetriesArg - 1
    /\ Count(last.trace, "probe_ok") = 1
    /\ last.exc = "none"

\* C9: for every max_retries, 0 included, connect opens the data channel only
\* after a probe of the same call succeeded, does not return normally when no
\* probe succeeded, and opens the data channel at most once.
C9_DataChannelAfterProbe ==
    last.op = "connect"
    => LET t == last.trace IN
       /\ \A i \in 1..Len(t) :
             t[i] \in {"open_data", "open_data_fail"}
                => \E j \in 1..(i - 1) : t[j] = "probe_ok"
       /\ Count(t, "probe_ok") = 0 => last.exc # "none"
       /\ Count(t, "open_data") + Count(t, "open_data_fail") <= 1

Has(trace, ev) == \E i \in 1..Len(trace) : trace[i] = ev

\* C11: when the remote fails the query request of a connected store, search
\* returns an empty list and does not raise; the search that follows, served
\* by the remote, returns a result for every row of its query response.
C11_QueryFailureDegrades ==
    /\ (last.op = "search" /\ Has(last.trace, "query_fail"))
          => (last.exc = "none" /\ last.ret = Some(<<>>))
    /\ (last.op = "search" /\ last.afterFail
          /\ Has(last.trace, "query_ok") /\ Has(last.trace, "download_ok"))
          => /\ last.exc = "none"
             /\ Len(last.ret[1]) = Len(last.args[1].rows)
             /\ \A k \in 1..Len(last.ret[1]) :
                   /\ last.ret[1][k].memory.id = last.args[1].rows[k].id
                   /\ last.ret[1][k].score = Frac(last.args[1].rows[k].score, 1)

C11_Witness ==
    /\ last.op = "search"
    /\ last.afterFail
    /\ last.exc = "none"
    /\ Len(last.args[1].rows) = MaxTopK
    /\ Len(last.ret[1]) = MaxTopK

StoredMeta(i) ==
    IF recs[i].metadata.kind = "json"
    THEN [k \in {p[1] : p \in recs[i].metadata.text} |->
            (CHOOSE p \in recs[i].metadata.text : p[1] = k)[2]]
    ELSE EmptyDict

\* The Memory a read owes the caller for the i-th row.
Owed(i, mem) ==
    /\ mem.content = IF "content" \in DOMAIN StoredMeta(i) THEN StoredMeta(i)["content"] ELSE ""
    /\ mem.client_id = IF "client_id" \in DOMAIN StoredMeta(i)
                       THEN StoredMeta(i)["client_id"] ELSE "unknown"
    /\ IF "created_at" \in DOMAIN StoredMeta(i)
       THEN IsoFormat(mem.created_at) = StoredMeta(i)["created_at"]
       ELSE mem.created_at = clock
    /\ DOMAIN mem.metadata = DOMAIN StoredMeta(i) \ {"content", "client_id", "created_at"}
    /\ \A k \in DOMAIN mem.metadata : mem.metadata[k] = StoredMeta(i)[k]

\* The memories the last list_memories or search returned.
ReadMemories ==
    IF last.op = "search" THEN [k \in 1..Len(last.ret[1]) |-> last.ret[1][k].memory]
    ELSE last.ret[1].memories

\* C13: for records whose metadata lacks any of content, client_id and
\* created_at, or whose metadata cell is empty, search and list_memories do
\* not raise and return for each record a Memory with content "", client_id
\* "unknown", created_at = now for what is absent, and the other keys as its
\* metadata.
C13_IncompleteMetadataTolerated ==
    last.op \in {"search", "list_memories"}
    => /\ last.exc = "none"
       /\ Len(ReadMemories) = Len(recs)
       /\ \A i \in 1..Len(recs) :
             \E k \in 1..Len(ReadMemories) :
                ReadMemories[k].id = recs[i].id /\ Owed(i, ReadMemories[k])

C13_Witness ==
    /\ last.op = "search"
    /\ Len(recs) = MaxMetaRecs
    /\ recs[1] = EmptyCellRow
    /\ DOMAIN StoredMeta(2) = {"client_id", "tag"}
    /\ Len(last.ret[1]) = MaxMetaRecs
    /\ last.ret[1][1].memory.client_id = "unknown"
    /\ last.ret[1][1].memory.created_at = clock
    /\ last.ret[1][2].memory.content = ""
    /\ DOMAIN last.ret[1][2].memory.metadata = {"tag"}

\* C14: the metadata map of every Memory handed to a caller, by add_memory,
\* search or list_memories, has none of the keys content, client_id,
\* created_at, whatever metadata the caller passed to add_memory.
C14_NoReservedKeysInMetadata ==
    /\ (last.op = "add_memory" /\ last.exc = "none")
          => DOMAIN last.ret[1].metadata \cap ReservedKeys = {}
    /\ (last.op \in {"search", "list_memories"} /\ last.exc = "none")
          => \A k \in 1..Len(ReadMemories) :
                DOMAIN ReadMemories[k].metadata \cap ReservedKeys = {}

CreateIssued(trace) ==
    Has(trace, "create_ok") \/ Has(trace, "create_exists") \/ Has(trace, "create_fail")

\* C15: a create_namespace on a namespace that exists does not raise and
\* leaves its records as they are: a facade call (other than delete_all)
\* that issues the namespace-ensure against an existing namespace returns
\* and loses no record.
C15_CreateKeepsRecords ==
    [][(nsExists /\ last' # last /\ last'.op \in FacadeOps \ {"delete_all"}
          /\ CreateIssued(last'.trace))
       => /\ last'.exc = "none"
          /\ nsExists'
          /\ Len(recs') >= Len(recs)
          /\ SubSeq(recs', 1, Len(recs)) = recs]_vars

C15_Witness ==
    /\ last.op = "get_stats"
    /\ ~last.hadClient
    /\ Has(last.trace, "create_exists")
    /\ last.preCount = MaxRecs
    /\ last.ret[1].total_memories = MaxRecs

\* C16: a failure of the create-namespace action other than already-exists
\* reaches the caller as an error.
C16_CreateFailurePropagates ==
    (last.op \in FacadeOps /\ Has(last.trace, "create_fail")) => last.exc # "none"

FailureEvents ==
    {"open_data_fail", "create_fail", "delete_fail", "download_fail", "query_fail",
     "upload_fail"}

\* C17: when the recreate step of delete_all fails, delete_all still returns
\* the count from before the deletion and leaves the namespace absent; the
\* get_stats, list_memories and search that follow report total 0 and empty
\* lists without an error.
C17_RecreateFailureSwallowed ==
    /\ (last.op = "delete_all" /\ Has(last.trace, "download_ok")
          /\ Has(last.trace, "delete_ok") /\ last.trace[Len(last.trace)] = "create_fail")
          => (last.exc = "none" /\ last.ret = Some(last.preCount) /\ ~nsExists)
    /\ (emptied # None /\ ~nsExists /\ last.op \in {"get_stats", "list_memories", "search"}
          /\ \A i \in 1..Len(last.trace) : last.trace[i] \notin FailureEvents)
          => /\ last.exc = "none"
             /\ last.op = "get_stats" => last.ret[1].total_memories = 0
             /\ last.op = "list_memories"
                   => (last.ret[1].total = 0 /\ last.ret[1].memories = <<>>)
             /\ last.op = "search" => last.ret[1] = <<>>

C17_Witness ==
    /\ emptied = Some(MaxRecs)
    /\ ~nsExists
    /\ last.op = "list_memories"
    /\ last.exc = "none"
    /\ last.ret[1].total = 0
    /\ Has(last.trace, "download_missing")

\* The client_id values and the created_at strings of the namespace.
ClientIds ==
    { IF "client_id" \in DOMAIN StoredMeta(i) THEN StoredMeta(i)["client_id"] ELSE "unknown"
      : i \in 1..Len(recs) }

CreatedAts ==
    { StoredMeta(i)["created_at"] : i \in {j \in 1..Len(recs) : "created_at" \in DOMAIN StoredMeta(j)} }

\* C18: get_stats over N records returns total_memories = N, unique_clients =
\* the number of distinct client_id values ("unknown" for a record without
\* one), oldest_memory = the least and newest_memory = the greatest
\* created_at string; both are absent exactly when no record has a
\* created_at, and the empty namespace gives 0, 0, none, none.
C18_StatsAggregate ==
    last.op = "get_stats"
    => /\ last.exc = "none"
       /\ LET st == last.ret[1] IN
          /\ st.total_memories = Len(recs)
          /\ st.unique_clients = Cardinality(ClientIds)
          /\ st.backend = "longbow"
          /\ (st.oldest_memory = None) <=> (CreatedAts = {})
          /\ (st.newest_memory = None) <=> (CreatedAts = {})
          /\ CreatedAts # {}
                => /\ st.oldest_memory[1] \in CreatedAts
                   /\ st.newest_memory[1] \in CreatedAts
                   /\ \A c \in CreatedAts :
                         ~StrLess(c, st.oldest_memory[1]) /\ ~StrLess(st.newest_memory[1], c)
                   /\ ~StrLess(st.newest_memory[1], st.oldest_memory[1])
          /\ Len(recs) = 0
                => (st.total_memories = 0 /\ st.unique_clients = 0
                    /\ st.oldest_memory = None /\ st.newest_memory = None)

C18_Witness ==
    /\ last.op = "get_stats"
    /\ Len(recs) = MaxMetaRecs
    /\ "client_id" \notin DOMAIN StoredMeta(1)
    /\ last.ret[1].unique_clients = 2
    /\ last.ret[1].oldest_memory = Some(IsoFormat(1))
    /\ last.ret[1].newest_memory = Some(IsoFormat(2))
    /\ StoredMeta(1)["created_at"] = IsoFormat(2)

\* C19: an insert whose batch has a vector of a length other than
\* EMBEDDING_DIM, or vectors of different lengths, fails before any upload
\* request is issued; no row with a vector of another length is uploaded.
C19_MalformedVectorsRejected ==
    /\ (last.op = "insert"
          /\ \E i \in 1..Len(last.args[1]) : last.args[1][i].vector.dim # EMBEDDING_DIM)
          => /\ last.exc # "none"
             /\ ~Has(last.trace, "upload_ok") /\ ~Has(last.trace, "upload_fail")
    /\ \A i \in 1..Len(recs) : recs[i].vector.dim = EMBEDDING_DIM

\* The call that this step makes builds no object that exists already, and
\* on a connected client it neither connects nor issues the namespace-ensure
\* action, unless it is delete_all recreating the namespace.
BuildsNothingTwice ==
    /\ _store => ~Has(last'.trace, "new_store")
    /\ model => ~Has(last'.trace, "load_model")
    /\ client => ~Has(last'.trace, "new_client")
    /\ \A ev \in {"new_store", "load_model", "new_client"} : Count(last'.trace, ev) <= 1
    /\ (metaClient /\ dataClient)
          => /\ \A ev \in ConnectEvents : ~Has(last'.trace, ev)
             /\ last'.op # "delete_all" => \A ev \in CreateEvents : ~Has(last'.trace, ev)

\* C20: over any sequence of facade calls, get_store creates at most one
\* MemoryStore, the embedding model and the transport client are each built at
\* most once, and once a connect has succeeded no later call connects again or
\* issues the namespace-ensure action again, delete_all's recreate excepted.
C20_LazyInitOnce == [][BuildsNothingTwice]_vars

\* An add_memory on the global store that held its model and its connected
\* client already: its only request is the upload.
C20_Witness ==
    /\ last.op = "add_memory" /\ last.exc = "none" /\ last.hadClient
    /\ _store /\ model /\ client /\ metaClient /\ dataClient
    /\ last.trace = <<"upload_ok">>

UploadEvents == {"upload_ok", "upload_fail"}

QueryEvents == {"query_ok", "query_fail", "query_missing"}

DownloadEvents == {"download_ok", "download_fail", "download_missing"}

DeleteEvents == {"delete_ok", "delete_fail"}

\* The number of requests of one kind in the trace of a call.
Requests(trace, evs) == Cardinality({i \in 1..Len(trace) : trace[i] \in evs})

\* C21 as stated: within one facade call each remote request (upload, query,
\* full download, create action, delete action) is issued at most once.
C21_EachRequestAtMostOnce ==
    last.op \in FacadeOps
       => \A evs \in {UploadEvents, QueryEvents, DownloadEvents, CreateEvents, DeleteEvents} :
             Requests(last.trace, evs) <= 1

\* C21 amended: within one facade call the upload, the query, the full
\* download and the delete action are each issued at most once, failed or
\* not; the create action is issued at most once, except by a delete_all that
\* also builds the store's client, which issues it twice: once to ensure the
\* namespace and once to recreate it.
C21_NoRequestRetried ==
    last.op \in FacadeOps
       => /\ \A evs \in {UploadEvents, QueryEvents, DownloadEvents, DeleteEvents} :
                Requests(last.trace, evs) <= 1
          /\ Requests(last.trace, CreateEvents)
                <= (IF last.op = "delete_all" /\ ~last.hadClient THEN 2 ELSE 1)

\* An add_memory whose upload the remote failed: one upload request, raised.
C21_Witness ==
    /\ last.op = "add_memory" /\ last.exc = "FlightError"
    /\ Requests(last.trace, ConnectEvents) = 0
    /\ Count(last.trace, "upload_fail") = 1

MemoryFields == {"id", "content", "embedding", "metadata", "created_at", "client_id"}

\* C22: add_memory either returns a complete Memory, built from its
\* arguments, after its upload request completed and stored the record, or
\* raises and returns nothing; a failed upload is raised to the caller.
C22_AddMemoryStoredOrRaised ==
    last.op = "add_memory"
       => /\ last.exc = "none"
               => /\ last.ret # None
                  /\ DOMAIN last.ret[1] = MemoryFields
                  /\ last.ret[1].content = last.args[1].content
                  /\ last.ret[1].client_id = last.args[1].client_id
                  /\ last.ret[1].embedding = Some(Embed(last.args[1].content))
                  /\ Count(last.trace, "upload_ok") = 1
                  /\ Len(recs) = last.preCount + 1
                  /\ recs[Len(recs)].id = last.ret[1].id
          /\ last.exc # "none" => last.ret = None /\ Len(recs) = last.preCount
          /\ Has(last.trace, "upload_fail") => last.exc = "FlightError"

\* The second add_memory of a store finds the namespace empty (the first one
\* failed, or a delete_all ran), returns its Memory and leaves it as the only row.
C22_Witness ==
    /\ last.op = "add_memory" /\ last.exc = "none" /\ last.ret # None
    /\ last.preCount = 0 /\ Len(recs) = 1 /\ recs[1].id = last.ret[1].id
    /\ clock > 2

\* C23: under any interleaving of two callers' first calls, each caller's
\* request is issued on a client with both channels open and after the
\* create-namespace action was issued, and each caller gets a result that a
\* run of the two calls one after the other gives.
C23_FirstCallRaceBenign ==
    last.op = "race"
       => /\ \A i \in 1..Len(last.trace) :
                last.trace[i] \in UploadEvents \cup DownloadEvents
                   => \E j \in 1..(i - 1) : last.trace[j] \in CreateEvents
          /\ \A t \in Callers :
                /\ pc[t].at # "raised"
                /\ pc[t].at = "done"
                      => /\ pc[t].channels = Some([meta |-> TRUE, data |-> TRUE])
                         /\ pc[t].op = "list_memories"
                               => pc[t].ret[1] \in
                                     {last.preCount} \cup
                                     {last.preCount + 1 : u \in {v \in Callers \ {t} :
                                                                   pc[v].op = "add_memory"}}
                         /\ pc[t].op = "add_memory"
                               => \E i \in 1..Len(recs) : recs[i].id = pc[t].ret[1]

\* C24: an add_edge request with a negative weight is rejected with a
\* validation error and reaches no edge-insert action, on the REST path and
\* on the MCP tool path.
C24_NegativeWeightRejected ==
    (last.op = "boundary" /\ last.args[1].action = "add_edge" /\ last.args[1].weight < 0)
       => /\ last.exc = "ValidationError"
          /\ ~Has(last.trace, "store_call")

\* C25: every traverse call made on the store has 1 <= max_hops <= 10, on
\* the REST, the WebSocket and the MCP tool path.
C25_HopCeilingEnforced ==
    (last.op = "boundary" /\ last.args[1].action = "traverse" /\ Has(last.trace, "store_call"))
       => 1 <= last.args[1].max_hops /\ last.args[1].max_hops <= HopCeiling

\* C26: after an accepted add_edge(A, B) as the only edge, a one-hop outgoing
\* traverse from A returns a node set that holds B's node, and one from B
\* returns a node set without A's node (the empty set, A -> B being the only
\* edge).
C26_EdgesDirected ==
    (/\ last.op = "boundary" /\ last.args[1].action = "traverse"
     /\ last.args[1].max_hops = 1
     /\ added # None /\ added[1].weight >= 0)
       => /\ last.exc = "none" /\ last.ret # None
          /\ last.args[1].start = "A" => Len(last.ret[1]) >= 1
          /\ last.args[1].start = "B" => last.ret[1] = <<>>

\* C27: every search mode of the request layer completes on the store and
\* returns what plain search returns: the reconciled results, in the order of
\* the remote ranking.
C27_SearchModesReconciled ==
    (last.op = "boundary" /\ last.args[1].action \in SearchModes)
       => /\ last.exc = "none"
          /\ last.ret = Search(Store, World, FullRanking(World), Healthy, clock).ret

\* C28: whatever metadata the caller passes, the record add_memory uploads
\* stores its content and client_id arguments and the generated created_at,
\* and a later list_memories returns for that id the content, client_id and
\* created_at of the Memory add_memory returned.
C28_FirstClassFieldsKept ==
    /\ (last.op = "add_memory" /\ last.exc = "none")
          => /\ StoredMeta(Len(recs))["content"] = last.args[1].content
             /\ StoredMeta(Len(recs))["client_id"] = last.args[1].client_id
             /\ StoredMeta(Len(recs))["created_at"] = IsoFormat(last.ret[1].created_at)
    /\ (last.op = "list_memories" /\ last.exc = "none" /\ added # None)
          => \A k \in 1..Len(ReadMemories) :
                ReadMemories[k].id = added[1].memory.id
                   => /\ ReadMemories[k].content = added[1].memory.content
                      /\ ReadMemories[k].client_id = added[1].memory.client_id
                      /\ ReadMemories[k].created_at = added[1].memory.created_at

\* Every upload, query or download of the call that this step makes comes
\* after a create-namespace action of this store, issued by an earlier call or
\* earlier in this call.
EnsuredFirst ==
    last'.op \in FacadeOps
       => \A i \in 1..Len(last'.trace) :
             last'.trace[i] \in UploadEvents \cup QueryEvents \cup DownloadEvents
                => ensured \/ \E j \in 1..(i - 1) : last'.trace[j] \in CreateEvents

\* C29: whenever a facade operation issues an upload, query or download, this
\* store has already issued the create-namespace action at least once, also
\* when its first call failed to connect and a later call connects.
C29_EnsureBeforeRequests == [][EnsuredFirst]_vars

\* C30: the value delete_all returns is the number of records the call
\* removed from the namespace, whichever of its download, delete action and
\* create action fail; a delete_all that raises removes nothing.
C30_DeleteAllReportsRemoved ==
    last.op = "delete_all"
       => IF last.exc = "none"
          THEN last.ret # None /\ last.ret[1] = last.preCount - Len(recs)
          ELSE Len(recs) = last.preCount

\* C31: when delete_all of one caller has returned, the memory another
\* caller's add_memory returned is among the records delete_all counted or is
\* in the namespace.
C31_AcknowledgedCountedOrKept ==
    (pc[1].at = "done" /\ pc[1].op = "delete_all" /\ added # None)
       => \/ added[1].memory.id \in pc[1].seen
          \/ \E i \in 1..Len(recs) : recs[i].id = added[1].memory.id

\* C32: every result search returns pairs a score with the memory the remote
\* ranked at that score when it answered the query.
C32_ScorePairedWithRankedMemory ==
    (pc[1].at = "done" /\ pc[1].op = "search")
       => \A k \in 1..Len(pc[1].ret[1]) :
             \E i \in 1..Len(pc[1].rows) :
                /\ pc[1].rows[i].score = pc[1].ret[1][k].score
                /\ pc[1].ranked[i] = pc[1].ret[1][k].memory.id

\* C33: broadcast_update does not raise, and when it has returned every
\* client that was in websocket_clients for the whole broadcast was sent the
\* message or is no longer in websocket_clients.
C33_BroadcastCompletes ==
    /\ pc[0].at # "raised"
    /\ pc[0].at = "returned"
          => \A c \in pc[0].whole : c \in pc[0].sent \/ c \notin websocket_clients

\* C35: a tool call does not raise; it returns one text content item, whose
\* text starts with "Error: " exactly when the tool's branch raised or the
\* tool is unknown.
C35_ToolCallReturnsTextOrError ==
    last.op = "call_tool"
       => /\ last.exc = "none"
          /\ Len(last.ret[1]) = 1
          /\ last.ret[1][1].type = "text"
          /\ (last.ret[1][1].text[1] = "Error: ")
                <=> (last.raised # "none" \/ last.args[1] \notin ToolNames)

\* An add_memory tool call whose upload the remote failed, answered with an
\* error text.
C35_Witness ==
    /\ last.op = "call_tool"
    /\ last.args[1] = "add_memory"
    /\ Has(last.trace, "upload_fail")
    /\ last.ret[1][1].text[1] = "Error: "

\* A message handled for a client that stays connected leaves it in the set.
ConnectedKept ==
    \A c \in Callers :
       (c \in websocket_clients /\ pc[c].peer /\ pc'[c].peer) => c \in websocket_clients'

\* C36: a websocket is in websocket_clients only while its handler runs, and
\* no message (invalid JSON, unknown action, store error) removes a client
\* that is still connected.
C36_InSetOnlyWhileHandlerRuns ==
    /\ [](\A c \in Callers : c \in websocket_clients => pc[c].at \in Running)
    /\ [][ConnectedKept]_vars

\* Handlers have returned after a failed get_stats and after a disconnect,
\* and a connected client has had a message answered with an error.
C36_Witness ==
    /\ pc[1].at = "returned" /\ pc[1].msg = "get_stats"
    /\ pc[2].at = "loop" /\ pc[2].msg \in {"invalid_json", "unknown_action", "store_error"}
    /\ 2 \in websocket_clients

\* C34: for every integer limit and offset, negative ones included,
\* list_memories returns at most max(limit, 0) memories, all of them records
\* at positions >= max(offset, 0) of the namespace sorted by created_at
\* descending.
C34_PageWithinLimitAndOffset ==
    (last.op = "list_memories" /\ last.exc = "none")
       => /\ Len(last.ret[1].memories) <= Max(last.args[1], 0)
          /\ \E p \in DescendingOrders :
                \A j \in 1..Len(last.ret[1].memories) :
                   \E k \in (Max(last.args[2], 0) + 1)..Len(recs) :
                      last.ret[1].memories[j].id = recs[p[k]].id

DataChannelFailures == {"open_data_fail", "upload_fail", "download_fail", "query_fail"}

\* C10: a failure on the data channel (opening it, an upload, a download, a
\* query) makes the facade operation that hits it raise; the operation does
\* not return an empty list, a zero count or a success.
C10_DataChannelFailureSurfaces ==
    (last.op \in FacadeOps /\ \E i \in 1..Len(last.trace) : last.trace[i] \in DataChannelFailures)
    => last.exc # "none"

====
